---- MODULE Spec2Model ----
(***************************************************************************)
(* PDFRenamer: the field-extraction engine of pdf_tools.py                 *)
(* (OptimizedRegexExtractor), the normaliser and resolver behind it, and   *)
(* the template layer (process_single_pdf) that turns the extracted        *)
(* fields into a file name.                                                *)
(*                                                                         *)
(* Text is a sequence of one-character strings.  Python floats are IEEE    *)
(* doubles, modelled exactly (see the section "Floats").  Regular          *)
(* expressions are data (a syntax tree) run by a backtracking matcher that *)
(* returns the matches in the priority order of Python's re module.        *)
(***************************************************************************)
EXTENDS Integers, Sequences, FiniteSets, TLC

VARIABLES
    text,            \* the document's text (what page.get_text gives for the file)
    pc,              \* which call was made on the document: "init", "extracted", "processed", "normalized"
    min_confidence,  \* the threshold of the last extract_fields_advanced call
    all_matches,     \* extract_fields_advanced: the local list all_matches
    fields,          \* extract_fields_advanced: the returned mapping, in dict order
    template,        \* process_single_pdf: the template argument
    file,            \* process_single_pdf: the file at file_path
    outcome,         \* process_single_pdf: the returned (new_name, content, error)
    raw_label,       \* _normalize_field_name: the argument
    canonical,       \* _normalize_field_name: the value returned
    uploaded_files,  \* BulkProcessWorker.uploaded_files: the documents of the batch
    is_running,      \* BulkProcessWorker.is_running
    success_count,   \* BulkProcessWorker.success_count
    error_count,     \* BulkProcessWorker.error_count
    file_index,      \* BulkProcessWorker.run: how many files the loop has gone through
    renamed_data,    \* BulkProcessWorker.run: the keys of the dict renamed_data, in order
    file_processed,  \* the file_processed signals emitted: (file, success or not, message)
    progress,        \* the progress signals emitted
    signals,         \* the error and finished signals emitted
    log,             \* the log signals emitted
    _extractor_instance,  \* the module global of get_regex_extractor: None or an instance
    instances,       \* the OptimizedRegexExtractor objects constructed so far
    threads,         \* for each thread, its extraction calls and the locals of the running one
    history,         \* the extraction calls that have returned, with their results
    failing,  \* extract_fields_advanced: the (pattern, line) whose application raises, if any
    scan_raised, \* extract_fields_advanced: whether the call left with an exception
    process_run_btn,  \* PDFRenamerApp.process_run_btn.isEnabled()
    process_stop_btn,  \* PDFRenamerApp.process_stop_btn.isEnabled()
    handled, \* how many of the worker's finished and error signals the slots of the window have handled
    zip_data,  \* save_zip: the dict renamed_data, as the sequence of its (name, content) items
    existing,  \* the file at save_path before save_zip was called, if any
    save_path_file,  \* the file at save_path
    temp_file,  \* the file at save_path with the suffix .tmp
    backup_file,  \* the file at save_path with the suffix .backup
    zip_pc,  \* save_zip: the step it is at, or how it ended
    zip_error  \* save_zip: the exception on its way out, if any

\* the state of a BulkProcessWorker
workerVars == <<uploaded_files, is_running, success_count, error_count, file_index,
                renamed_data, file_processed, progress, signals, log>>

\* the extractor singleton and the calls made through it
callVars == <<_extractor_instance, instances, threads, history>>

\* the failure of one pattern on one line during a scan
faultVars == <<failing, scan_raised>>

\* the buttons of the processing tab and the delivery of the worker's signals
uiVars == <<process_run_btn, process_stop_btn, handled>>

\* one call of zip_tools.save_zip and the three files it touches
zipVars == <<zip_data, existing, save_path_file, temp_file, backup_file, zip_pc, zip_error>>

vars == <<text, pc, min_confidence, all_matches, fields, template, file, outcome,
          raw_label, canonical, workerVars, callVars, faultVars, uiVars, zipVars>>

\* Python's None and a value that is not None
None == <<>>
Some(x) == <<x>>

----------------------------------------------------------------------------
(* Characters and the str methods the code uses                            *)

Upper == {"A","B","C","D","E","F","G","H","I","J","K","L","M",
          "N","O","P","Q","R","S","T","U","V","W","X","Y","Z"}
Lower == {"a","b","c","d","e","f","g","h","i","j","k","l","m",
          "n","o","p","q","r","s","t","u","v","w","x","y","z"}
Digit == {"0","1","2","3","4","5","6","7","8","9"}
Letter == Upper \cup Lower
\* the full-width colon U+FF1A, one character
FWColon == "U+FF1A"
\* \s of the re module and the characters str.strip() and str.split() remove
White == {" ", "\t", "\n", "\r", "\f"}
\* \w of the re module
WordCh == Letter \cup Digit \cup {"_"}

UpperSeq == <<"A","B","C","D","E","F","G","H","I","J","K","L","M",
              "N","O","P","Q","R","S","T","U","V","W","X","Y","Z">>
LowerSeq == <<"a","b","c","d","e","f","g","h","i","j","k","l","m",
              "n","o","p","q","r","s","t","u","v","w","x","y","z">>

\* str.lower() and str.upper() of one character
LowerCh(c) == IF c \in Upper THEN LowerSeq[CHOOSE i \in 1..26 : UpperSeq[i] = c] ELSE c
UpperCh(c) == IF c \in Lower THEN UpperSeq[CHOOSE i \in 1..26 : LowerSeq[i] = c] ELSE c

\* str.lower()
StrLower(s) == [i \in 1..Len(s) |-> LowerCh(s[i])]
\* str.upper()
StrUpper(s) == [i \in 1..Len(s) |-> UpperCh(s[i])]

\* str.isupper(): at least one cased character and no lowercase one
IsUpperStr(s) == /\ \E i \in 1..Len(s) : s[i] \in Upper
                 /\ \A i \in 1..Len(s) : s[i] \notin Lower

\* s[a:b] of Python with 1-based inclusive bounds a..b
Slice(s, a, b) == IF a > b THEN <<>> ELSE SubSeq(s, a, b)

\* str.strip(chars): first and last position kept
StripChars(s, cs) ==
    LET keep == {i \in 1..Len(s) : s[i] \notin cs}
    IN  IF keep = {} THEN <<>>
        ELSE Slice(s, CHOOSE i \in keep : \A j \in keep : i <= j,
                      CHOOSE i \in keep : \A j \in keep : j <= i)
\* str.rstrip(chars)
RStripChars(s, cs) ==
    LET keep == {i \in 1..Len(s) : s[i] \notin cs}
    IN  IF keep = {} THEN <<>>
        ELSE Slice(s, 1, CHOOSE i \in keep : \A j \in keep : j <= i)
\* str.strip()
Strip(s) == StripChars(s, White)

\* s.startswith(w) at position i (1-based): w occurs in s at i
OccursAt(s, w, i) == /\ i + Len(w) - 1 <= Len(s)
                     /\ \A k \in 1..Len(w) : s[i + k - 1] = w[k]
\* w in s
Contains(s, w) == \E i \in 1..(Len(s) - Len(w) + 1) : OccursAt(s, w, i)
\* s.endswith(w)
EndsWith(s, w) == Len(w) <= Len(s) /\ OccursAt(s, w, Len(s) - Len(w) + 1)
\* s.count(c) for a character c
CountCh(s, c) == Cardinality({i \in 1..Len(s) : s[i] = c})

\* s.replace(old, new): every non-overlapping occurrence, left to right
RECURSIVE ReplaceFrom(_, _, _, _)
ReplaceFrom(s, old, new, i) ==
    IF i > Len(s) THEN <<>>
    ELSE IF OccursAt(s, old, i) THEN new \o ReplaceFrom(s, old, new, i + Len(old))
    ELSE <<s[i]>> \o ReplaceFrom(s, old, new, i + 1)
Replace(s, old, new) == ReplaceFrom(s, old, new, 1)

\* s.split(sep) for a one-character separator: the pieces, empty ones included
RECURSIVE SplitFrom(_, _, _, _)
SplitFrom(s, sep, i, cur) ==
    IF i > Len(s) THEN <<cur>>
    ELSE IF s[i] = sep THEN <<cur>> \o SplitFrom(s, sep, i + 1, <<>>)
    ELSE SplitFrom(s, sep, i + 1, Append(cur, s[i]))
Split(s, sep) == SplitFrom(s, sep, 1, <<>>)

\* s.split(): the maximal runs of non-whitespace characters
RECURSIVE WordsFrom(_, _, _)
WordsFrom(s, i, cur) ==
    IF i > Len(s) THEN (IF cur = <<>> THEN <<>> ELSE <<cur>>)
    ELSE IF s[i] \in White
         THEN (IF cur = <<>> THEN <<>> ELSE <<cur>>) \o WordsFrom(s, i + 1, <<>>)
    ELSE WordsFrom(s, i + 1, Append(cur, s[i]))
Words(s) == WordsFrom(s, 1, <<>>)

\* sep.join(parts)
RECURSIVE Join(_, _)
Join(parts, sep) ==
    IF Len(parts) = 0 THEN <<>>
    ELSE IF Len(parts) = 1 THEN parts[1]
    ELSE parts[1] \o sep \o Join(Tail(parts), sep)

\* the indices of a sequence
Indices(q) == 1..Len(q)

\* [x for x in seq if Keep(x)]
RECURSIVE SelectIdx(_, _, _)
SelectIdx(seq, keepers, i) ==
    IF i > Len(seq) THEN <<>>
    ELSE (IF i \in keepers THEN <<seq[i]>> ELSE <<>>) \o SelectIdx(seq, keepers, i + 1)

----------------------------------------------------------------------------
(* Floats.  A Python float is an IEEE-754 double.  Every double the scorer *)
(* meets is a multiple of 2^-57 of magnitude below 4 (the literals are     *)
(* 0.05 and larger, and a sum is rounded to a coarser grid than its        *)
(* operands), so a double x is the integer N = x * 2^57, written           *)
(* <<hi, lo>> with N = hi * 2^29 + lo and 0 <= lo < 2^29.  Addition is the *)
(* exact integer sum rounded to 53 significant bits, ties to even, as the  *)
(* hardware does.                                                          *)

FBase == 2^29

FNeg(x) == IF x[2] = 0 THEN <<-x[1], 0>> ELSE <<-x[1] - 1, FBase - x[2]>>
FIsNeg(x) == x[1] < 0

RECURSIVE BitLen(_)
BitLen(n) == IF n = 0 THEN 0 ELSE 1 + BitLen(n \div 2)

\* round a magnitude to 53 significant bits, ties to even
FRoundMag(n) ==
    LET over == BitLen(n[1]) - 24
        r    == IF over > 0 THEN over ELSE 0
        unit == 2^r
        low  == n[2] % unit
        base == n[2] - low
        odd  == (base \div unit) % 2 = 1
        up   == r > 0 /\ (2 * low > unit \/ (2 * low = unit /\ odd))
        lo2  == IF up THEN base + unit ELSE base
    IN  IF lo2 >= FBase THEN <<n[1] + 1, lo2 - FBase>> ELSE <<n[1], lo2>>

FRound(n) == IF FIsNeg(n) THEN FNeg(FRoundMag(FNeg(n))) ELSE FRoundMag(n)

\* x + y
FAdd(x, y) ==
    LET lo == x[2] + y[2]
    IN  FRound(<<x[1] + y[1] + (lo \div FBase), lo % FBase>>)
\* x - y
FSub(x, y) == FAdd(x, FNeg(y))
\* x < y, x <= y, x >= y
FLt(x, y) == x[1] < y[1] \/ (x[1] = y[1] /\ x[2] < y[2])
FLe(x, y) == x = y \/ FLt(x, y)
FGe(x, y) == FLe(y, x)

\* the float literals of pdf_tools.py, as <<hi, lo>>
F0_0  == <<0, 0>>
F1_0  == <<268435456, 0>>
F0_05 == <<13421772, 429496730>>
F0_10 == <<26843545, 322122548>>
F0_15 == <<40265318, 214748364>>
F0_20 == <<53687091, 107374184>>
F0_25 == <<67108864, 0>>
F0_30 == <<80530636, 429496728>>
F0_40 == <<107374182, 214748368>>
F0_50 == <<134217728, 0>>
F0_6  == <<161061273, 322122544>>
F0_65 == <<174483046, 214748368>>
F0_70 == <<187904819, 107374176>>
F0_75 == <<201326592, 0>>
F0_80 == <<214748364, 429496736>>
F0_85 == <<228170137, 322122544>>
F0_90 == <<241591910, 214748368>>
F0_95 == <<255013683, 107374176>>
F0_98 == <<263066746, 472446400>>

----------------------------------------------------------------------------
(* Regular expressions.  A pattern is a syntax tree; Paths gives every way *)
(* the backtracking matcher of Python's re module can match it at a        *)
(* position, in the order the matcher tries them, so the first path is the *)
(* match re returns (greedy repeats try the longest first, lazy ones the   *)
(* shortest, alternatives left to right).  A path is its end position and  *)
(* the spans of the capture groups.                                        *)

\* [...]: one character of the set
In(S) == [t |-> "in", s |-> S]
\* [^...]: one character outside the set
NotIn(S) == [t |-> "notin", s |-> S]
\* r{lo,hi}, r{lo,hi}?  (hi = -1: no upper limit)
Rep(r, lo, hi) == [t |-> "rep", r |-> r, lo |-> lo, hi |-> hi, greedy |-> TRUE]
Lazy(r, lo, hi) == [t |-> "rep", r |-> r, lo |-> lo, hi |-> hi, greedy |-> FALSE]
Star(r) == Rep(r, 0, -1)
Plus(r) == Rep(r, 1, -1)
Opt(r) == Rep(r, 0, 1)
\* r1 r2 ...
Cat(a) == [t |-> "cat", a |-> a]
\* r1|r2|...
Alt(a) == [t |-> "alt", a |-> a]
\* (r), capture group n
Grp(n, r) == [t |-> "grp", n |-> n, r |-> r]
\* ^ and $ under re.MULTILINE, \b
Bol == [t |-> "bol"]
Eol == [t |-> "eol"]
Wb  == [t |-> "wb"]
\* a literal word; under re.IGNORECASE either case of each letter
Lit(w) == Cat([i \in 1..Len(w) |-> In({w[i]})])
LitI(w) == Cat([i \in 1..Len(w) |-> In({LowerCh(w[i]), UpperCh(w[i])})])

NoGroups == <<<<0, 0>>, <<0, 0>>>>

IsWordAt(s, i) == i >= 1 /\ i <= Len(s) /\ s[i] \in WordCh

RECURSIVE Paths(_, _, _, _), PathsCat(_, _, _, _, _), PathsAlt(_, _, _, _, _),
          PathsRep(_, _, _, _, _), ThenCat(_, _, _, _, _), ThenRep(_, _, _, _, _)

\* the paths of r at position i of s (the next character is s[i]), groups g so far
Paths(r, s, i, g) ==
    CASE r.t = "in"    -> IF i <= Len(s) /\ s[i] \in r.s
                          THEN <<[e |-> i + 1, g |-> g]>> ELSE <<>>
      [] r.t = "notin" -> IF i <= Len(s) /\ s[i] \notin r.s
                          THEN <<[e |-> i + 1, g |-> g]>> ELSE <<>>
      [] r.t = "bol"   -> IF i = 1 \/ s[i - 1] = "\n"
                          THEN <<[e |-> i, g |-> g]>> ELSE <<>>
      [] r.t = "eol"   -> IF i = Len(s) + 1 \/ s[i] = "\n"
                          THEN <<[e |-> i, g |-> g]>> ELSE <<>>
      [] r.t = "wb"    -> IF IsWordAt(s, i - 1) # IsWordAt(s, i)
                          THEN <<[e |-> i, g |-> g]>> ELSE <<>>
      [] r.t = "cat"   -> PathsCat(r.a, 1, s, i, g)
      [] r.t = "alt"   -> PathsAlt(r.a, 1, s, i, g)
      [] r.t = "rep"   -> PathsRep(r, 0, s, i, g)
      [] r.t = "grp"   -> LET ps == Paths(r.r, s, i, g)
                          IN  [k \in 1..Len(ps) |->
                                 [e |-> ps[k].e,
                                  g |-> [ps[k].g EXCEPT ![r.n] = <<i, ps[k].e>>]]]

\* a[j], a[j+1], ... in sequence
PathsCat(a, j, s, i, g) ==
    IF j > Len(a) THEN <<[e |-> i, g |-> g]>>
    ELSE ThenCat(Paths(a[j], s, i, g), 1, a, j, s)
ThenCat(ps, k, a, j, s) ==
    IF k > Len(ps) THEN <<>>
    ELSE PathsCat(a, j + 1, s, ps[k].e, ps[k].g) \o ThenCat(ps, k + 1, a, j, s)

\* a[j] | a[j+1] | ...
PathsAlt(a, j, s, i, g) ==
    IF j > Len(a) THEN <<>>
    ELSE Paths(a[j], s, i, g) \o PathsAlt(a, j + 1, s, i, g)

\* r.r repeated, n repetitions done
PathsRep(r, n, s, i, g) ==
    LET more == IF r.hi = -1 \/ n < r.hi
                THEN ThenRep(Paths(r.r, s, i, g), 1, r, n, s) ELSE <<>>
        stop == IF n >= r.lo THEN <<[e |-> i, g |-> g]>> ELSE <<>>
    IN  IF r.greedy THEN more \o stop ELSE stop \o more
ThenRep(ps, k, r, n, s) ==
    IF k > Len(ps) THEN <<>>
    ELSE PathsRep(r, n + 1, s, ps[k].e, ps[k].g) \o ThenRep(ps, k + 1, r, n, s)

\* re.match(r, s): r matches at the start of s
ReMatch(r, s) == Paths(r, s, 1, NoGroups) # <<>>
\* re.search(r, s): r matches somewhere in s
ReSearch(r, s) == \E i \in 1..(Len(s) + 1) : Paths(r, s, i, NoGroups) # <<>>

\* the text of group n of a path (unmatched: the empty string)
GroupText(s, p, n) == Slice(s, p.g[n][1], p.g[n][2] - 1)

\* pattern.findall(s) for a pattern with two groups: the (group 1, group 2)
\* pairs of the non-overlapping matches, scanning from the left
RECURSIVE FindAllFrom(_, _, _)
FindAllFrom(r, s, pos) ==
    LET starts == {i \in pos..(Len(s) + 1) : Paths(r, s, i, NoGroups) # <<>>}
    IN  IF starts = {} THEN <<>>
        ELSE LET st == CHOOSE i \in starts : \A j \in starts : i <= j
                 p  == Paths(r, s, st, NoGroups)[1]
             IN  <<<<GroupText(s, p, 1), GroupText(s, p, 2)>>>>
                 \o FindAllFrom(r, s, IF p.e > st THEN p.e ELSE st + 1)
FindAll(r, s) == FindAllFrom(r, s, 1)

\* re.sub(r'[...]', rep, s) for a one-character class
SubChars(s, cs, rep) == [i \in 1..Len(s) |-> IF s[i] \in cs THEN rep ELSE s[i]]
\* re.sub(r'[...]', '', s)
DelChars(s, cs) == SelectIdx(s, {i \in 1..Len(s) : s[i] \notin cs}, 1)
\* len(re.findall(r'[^...]', s))
CountNotIn(s, cs) == Cardinality({i \in 1..Len(s) : s[i] \notin cs})

----------------------------------------------------------------------------
(* OptimizedRegexExtractor: the compiled patterns                          *)

SpTab == {" ", "\t"}
\* [A-Za-z0-9\s\-\.]
KeyCh == Letter \cup Digit \cup White \cup {"-", "."}
\* [A-Z0-9\s\-\.]
UpperKeyCh == Upper \cup Digit \cup White \cup {"-", "."}
\* [:：]
Colon == {":", FWColon}
\* ([A-Za-z][A-Za-z0-9\s\-\.]{2,39})
KeyGroup == Grp(1, Cat(<<In(Letter), Rep(In(KeyCh), 2, 39)>>))
\* ([^\r\n]{1,100})
ValueGroup == Grp(2, Rep(NotIn({"\r", "\n"}), 1, 100))

\* (?:Nama|Name|Nomor|...|Kelas|Class)
FormalWords == <<
    <<"N","a","m","a">>, <<"N","a","m","e">>, <<"N","o","m","o","r">>, <<"N","u","m","b","e","r">>,
    <<"N","o">>, <<"T","a","n","g","g","a","l">>, <<"D","a","t","e">>, <<"T","e","m","p","a","t">>,
    <<"P","l","a","c","e">>, <<"A","l","a","m","a","t">>, <<"A","d","d","r","e","s","s">>,
    <<"T","e","l","e","p","o","n">>, <<"P","h","o","n","e">>, <<"E","m","a","i","l">>,
    <<"N","I","K">>, <<"N","I","P">>, <<"N","P","W","P">>, <<"S","t","a","t","u","s">>,
    <<"J","e","n","i","s">>, <<"T","y","p","e">>, <<"K","e","l","a","s">>, <<"C","l","a","s","s">> >>

standard_colon ==
    Cat(<<Bol, Star(In(SpTab)), KeyGroup, Star(In(SpTab)), In(Colon),
          Star(In(SpTab)), ValueGroup, Star(In(SpTab)), Eol>>)
formal_indonesian ==
    Cat(<<Bol, Star(In(SpTab)),
          Grp(1, Cat(<<Alt([i \in 1..Len(FormalWords) |-> Lit(FormalWords[i])]),
                       Lazy(In(Letter \cup White), 0, -1)>>)),
          Star(In(SpTab)), In(Colon), Star(In(SpTab)), ValueGroup, Star(In(SpTab)), Eol>>)
uppercase_labels ==
    Cat(<<Bol, Star(In(SpTab)), Grp(1, Cat(<<In(Upper), Rep(In(UpperKeyCh), 2, 39)>>)),
          Star(In(SpTab)), Opt(In(Colon)), Star(In(SpTab)), ValueGroup,
          Star(In(SpTab)), Eol>>)
numbered_items ==
    Cat(<<Bol, Star(In(SpTab)), Plus(In(Digit)), Opt(In({"."})), Star(In(SpTab)), KeyGroup,
          Star(In(SpTab)), In(Colon), Star(In(SpTab)), ValueGroup, Star(In(SpTab)), Eol>>)
bracketed_labels ==
    Cat(<<Bol, Star(In(SpTab)), In({"[", "("}), KeyGroup, In({"]", ")"}), Star(In(SpTab)),
          Opt(In(Colon)), Star(In(SpTab)), ValueGroup, Star(In(SpTab)), Eol>>)
table_format ==
    Cat(<<Bol, Star(In(SpTab)), KeyGroup, Rep(In(SpTab), 2, -1),
          Grp(2, Cat(<<In(Letter \cup Digit), Rep(NotIn({"\r", "\n"}), 0, 99)>>)),
          Star(In(SpTab)), Eol>>)
dash_separated ==
    Cat(<<Bol, Star(In(SpTab)), KeyGroup, Star(In(SpTab)), In({"-"}),
          Star(In(SpTab)), ValueGroup, Star(In(SpTab)), Eol>>)
flexible_separators ==
    Cat(<<Bol, Star(In(SpTab)), KeyGroup, Star(In(SpTab)), In({"=", "|", FWColon}),
          Star(In(SpTab)), ValueGroup, Star(In(SpTab)), Eol>>)

\* self.compiled_patterns: (pattern, name, base confidence), in order
compiled_patterns == <<
    [re |-> standard_colon,      name |-> "standard_colon",      base |-> F0_95],
    [re |-> formal_indonesian,   name |-> "formal_indonesian",   base |-> F0_98],
    [re |-> uppercase_labels,    name |-> "uppercase_labels",    base |-> F0_85],
    [re |-> numbered_items,      name |-> "numbered_items",      base |-> F0_90],
    [re |-> bracketed_labels,    name |-> "bracketed_labels",    base |-> F0_80],
    [re |-> table_format,        name |-> "table_format",        base |-> F0_75],
    [re |-> dash_separated,      name |-> "dash_separated",      base |-> F0_70],
    [re |-> flexible_separators, name |-> "flexible_separators", base |-> F0_65] >>

----------------------------------------------------------------------------
(* OptimizedRegexExtractor: what a value looks like                        *)

D(lo, hi) == Rep(In(Digit), lo, hi)
DateSep == In({"-", "/"})
MonthsShort == <<
    <<"J","a","n">>, <<"F","e","b">>, <<"M","a","r">>, <<"A","p","r">>, <<"M","a","y">>,
    <<"J","u","n">>, <<"J","u","l">>, <<"A","u","g">>, <<"S","e","p">>, <<"O","c","t">>,
    <<"N","o","v">>, <<"D","e","c">> >>
MonthsLong == <<
    <<"J","a","n","u","a","r","i">>, <<"F","e","b","r","u","a","r","i">>, <<"M","a","r","e","t">>,
    <<"A","p","r","i","l">>, <<"M","e","i">>, <<"J","u","n","i">>, <<"J","u","l","i">>,
    <<"A","g","u","s","t","u","s">>, <<"S","e","p","t","e","m","b","e","r">>,
    <<"O","k","t","o","b","e","r">>, <<"N","o","v","e","m","b","e","r">>,
    <<"D","e","s","e","m","b","e","r">> >>

\* the four date_patterns, searched with re.IGNORECASE
date_patterns == <<
    Cat(<<Wb, D(1, 2), DateSep, D(1, 2), DateSep, D(2, 4), Wb>>),
    Cat(<<Wb, D(2, 4), DateSep, D(1, 2), DateSep, D(1, 2), Wb>>),
    Cat(<<Wb, D(1, 2), Plus(In(White)),
          Alt([i \in 1..Len(MonthsShort) |-> LitI(MonthsShort[i])]),
          Star(In(WordCh)), Plus(In(White)), D(2, 4), Wb>>),
    Cat(<<Wb, D(1, 2), Plus(In(White)),
          Alt([i \in 1..Len(MonthsLong) |-> LitI(MonthsLong[i])]),
          Plus(In(White)), D(2, 4), Wb>>) >>
_is_date_like(value) == \E k \in 1..Len(date_patterns) : ReSearch(date_patterns[k], value)

id_patterns == <<
    Cat(<<Bol, D(16, 16)>>),
    Cat(<<Bol, D(15, 15)>>),
    Cat(<<Bol, D(18, 18)>>),
    Cat(<<Bol, In(Upper), D(7, 12)>>),
    Cat(<<Bol, D(8, 20)>>) >>
_is_id_number_like(value) ==
    LET clean_value == DelChars(value, White \cup {"-", "."})
    IN  \E k \in 1..Len(id_patterns) : ReMatch(id_patterns[k], clean_value)

phone_patterns == <<
    Cat(<<Bol, Alt(<<Lit(<<"+","6","2">>), Lit(<<"6","2">>), Lit(<<"0">>)>>), D(8, 13)>>),
    Cat(<<Bol, Lit(<<"0","8">>), D(8, 11)>>),
    Cat(<<Bol, Lit(<<"0","2","1">>), D(7, 8)>>),
    Cat(<<Bol, Lit(<<"0">>), D(2, 3), D(6, 8)>>),
    Cat(<<Bol, Lit(<<"+">>), D(10, 15)>>) >>
_is_phone_like(value) ==
    LET clean_value == DelChars(value, White \cup {"-", "(", ")"})
    IN  \E k \in 1..Len(phone_patterns) : ReMatch(phone_patterns[k], clean_value)

email_pattern ==
    Cat(<<Bol, Plus(In(Letter \cup Digit \cup {".", "_", "%", "+", "-"})), In({"@"}),
          Plus(In(Letter \cup Digit \cup {".", "-"})), In({"."}), Rep(In(Letter), 2, -1)>>)
_is_email_like(value) == ReMatch(email_pattern, Strip(value))

\* the three currency_patterns, searched with re.IGNORECASE
currency_patterns == <<
    Cat(<<LitI(<<"R","p">>), Opt(In({"."})), Opt(In(White)), D(1, 3),
          Star(Cat(<<In({"."}), D(3, 3)>>)), Opt(Cat(<<In({","}), D(2, 2)>>))>>),
    Cat(<<In({"$"}), D(1, 3), Star(Cat(<<In({","}), D(3, 3)>>)),
          Opt(Cat(<<In({"."}), D(2, 2)>>))>>),
    Cat(<<D(1, 3), Star(Cat(<<In({"."}), D(3, 3)>>)), Opt(Cat(<<In({","}), D(2, 2)>>)),
          Opt(In(White)), LitI(<<"r","u","p","i","a","h">>)>>) >>
_is_currency_like(value) ==
    \E k \in 1..Len(currency_patterns) : ReSearch(currency_patterns[k], value)

----------------------------------------------------------------------------
(* OptimizedRegexExtractor._calculate_confidence                           *)

common_indonesian_fields == {
    <<"n","a","m","a">>, <<"n","a","m","e">>, <<"n","o","m","o","r">>, <<"n","u","m","b","e","r">>,
    <<"n","o">>, <<"t","a","n","g","g","a","l">>, <<"d","a","t","e">>, <<"a","l","a","m","a","t">>,
    <<"a","d","d","r","e","s","s">>, <<"t","e","l","e","p","o","n">>, <<"t","e","l","p">>,
    <<"p","h","o","n","e">>, <<"e","m","a","i","l">>, <<"n","i","k">>, <<"n","i","p">>,
    <<"n","p","w","p">>, <<"k","t","p">>, <<"i","d">>, <<"s","t","a","t","u","s">>,
    <<"j","e","n","i","s">>, <<"t","y","p","e">>, <<"t","e","m","p","a","t">>,
    <<"p","l","a","c","e">>, <<"l","a","h","i","r">>, <<"b","i","r","t","h">>,
    <<"k","e","l","a","m","i","n">>, <<"g","e","n","d","e","r">>,
    <<"p","e","k","e","r","j","a","a","n">>, <<"j","o","b">>,
    <<"p","e","n","d","i","d","i","k","a","n">>, <<"e","d","u","c","a","t","i","o","n">>,
    <<"a","g","a","m","a">>, <<"r","e","l","i","g","i","o","n">> }
\* the words of the "looks like content" test
content_words == {
    <<"a","d","a","l","a","h">>, <<"i","n","i">>, <<"d","a","r","i">>, <<"u","n","t","u","k">>,
    <<"d","e","n","g","a","n">>, <<"y","a","n","g">> }
common_words == {
    <<"d","a","n">>, <<"a","t","a","u">>, <<"d","a","r","i">>, <<"u","n","t","u","k">>,
    <<"d","e","n","g","a","n">>, <<"p","a","d","a">>, <<"d","i">>, <<"k","e">>, <<"o","l","e","h">> }

\* key.lower().replace(' ', '')
KeyLower(key) == Replace(StrLower(key), <<" ">>, <<>>)

\* the boost for the label's vocabulary and capitalisation
KeyBoost(confidence, key) ==
    LET key_lower == KeyLower(key)
        c1 == IF \E common \in common_indonesian_fields : Contains(key_lower, common)
              THEN FAdd(confidence, F0_15) ELSE confidence
    IN  IF key[1] \in Upper /\ ~IsUpperStr(key) THEN FAdd(c1, F0_05)
        ELSE IF IsUpperStr(key) /\ Len(key) <= 10 THEN FAdd(c1, F0_10)
        ELSE c1

\* the boost for structured values: the first shape recognised
ValueBoost(confidence, value) ==
    IF _is_date_like(value) THEN FAdd(confidence, F0_20)
    ELSE IF _is_id_number_like(value) THEN FAdd(confidence, F0_25)
    ELSE IF _is_phone_like(value) THEN FAdd(confidence, F0_20)
    ELSE IF _is_email_like(value) THEN FAdd(confidence, F0_25)
    ELSE IF _is_currency_like(value) THEN FAdd(confidence, F0_15)
    ELSE confidence

\* the penalties for problematic values.  special_char_ratio > 0.3 is a
\* comparison of count / len(value) with the double 0.3; for lengths up to
\* 100 it is the comparison 10 * count > 3 * len(value) of the exact ratios
ValuePenalty(confidence, value) ==
    LET c1 == IF Len(value) < 2 THEN FSub(confidence, F0_30)
              ELSE IF Len(value) > 80 THEN FSub(confidence, F0_10)
              ELSE confidence
        special_char_count ==
            CountNotIn(value, WordCh \cup White \cup {"-", ".", ",", "@", "/"})
    IN  IF Len(value) > 0 /\ 10 * special_char_count > 3 * Len(value)
        THEN FSub(c1, F0_25) ELSE c1

\* the penalty for a label that looks like content
ContentPenalty(confidence, key) ==
    IF \E word \in content_words : Contains(KeyLower(key), word)
    THEN FSub(confidence, F0_40) ELSE confidence

\* the boost for a line with exactly one colon
LineBoost(confidence, line) ==
    IF CountCh(line, ":") = 1 THEN FAdd(confidence, F0_05) ELSE confidence

\* the penalty for a label that is a very common word
CommonWordPenalty(confidence, key) ==
    IF KeyLower(key) \in common_words THEN FSub(confidence, F0_50) ELSE confidence

\* a variant that returns the score as it is
Clamp_Missing(confidence) == confidence

\* min(1.0, max(0.0, confidence))
Clamp(confidence) ==
    LET m == IF FLt(F0_0, confidence) THEN confidence ELSE F0_0
    IN  IF FLt(m, F1_0) THEN m ELSE F1_0

\* the score before the final clamp
RawConfidence(key, value, base_confidence, line, pattern_name) ==
    CommonWordPenalty(
        LineBoost(
            ContentPenalty(
                ValuePenalty(ValueBoost(KeyBoost(base_confidence, key), value), value),
                key),
            line),
        key)

_calculate_confidence(key, value, base_confidence, line, pattern_name) ==
    Clamp(RawConfidence(key, value, base_confidence, line, pattern_name))

----------------------------------------------------------------------------
(* OptimizedRegexExtractor._normalize_field_name                           *)

noise_words == {
    <<"n","o">>, <<"n","o","m","o","r">>, <<"n","u","m","b","e","r">>, <<"k","o","d","e">>,
    <<"c","o","d","e">>, <<"i","d">> }
\* the dict standardizations, in its order: (abbrev, full)
standardizations == <<
    <<<<"n","m">>, <<"n","a","m","a">>>>,
    <<<<"t","g","l">>, <<"t","a","n","g","g","a","l">>>>,
    <<<<"t","e","l","p">>, <<"t","e","l","e","p","o","n">>>>,
    <<<<"h","p">>, <<"h","a","n","d","p","h","o","n","e">>>>,
    <<<<"a","l","m","t">>, <<"a","l","a","m","a","t">>>>,
    <<<<"t","m","p">>, <<"t","e","m","p","a","t">>>>,
    <<<<"t","p","t">>, <<"t","e","m","p","a","t">>>>,
    <<<<"j","n","s">>, <<"j","e","n","i","s">>>>,
    <<<<"k","e","l">>, <<"k","e","l","a","m","i","n">>>>,
    <<<<"s","t","a","t">>, <<"s","t","a","t","u","s">>>> >>
\* the dict translations, in its order: (eng, indo)
translations == <<
    <<<<"n","a","m","e">>, <<"n","a","m","a">>>>,
    <<<<"d","a","t","e">>, <<"t","a","n","g","g","a","l">>>>,
    <<<<"a","d","d","r","e","s","s">>, <<"a","l","a","m","a","t">>>>,
    <<<<"p","h","o","n","e">>, <<"t","e","l","e","p","o","n">>>>,
    <<<<"e","m","a","i","l">>, <<"e","m","a","i","l">>>>,
    <<<<"s","t","a","t","u","s">>, <<"s","t","a","t","u","s">>>>,
    <<<<"t","y","p","e">>, <<"j","e","n","i","s">>>>,
    <<<<"p","l","a","c","e">>, <<"t","e","m","p","a","t">>>> >>

\* the noise words removed, unless nothing would be left
RemoveNoise(normalized) ==
    LET words == Words(normalized)
        cleaned_words == SelectIdx(words, {i \in 1..Len(words) : words[i] \notin noise_words}, 1)
    IN  IF cleaned_words # <<>> THEN Join(cleaned_words, <<" ">>) ELSE normalized

\* the loop over standardizations, from entry k on
RECURSIVE Standardize(_, _)
Standardize(normalized, k) ==
    IF k > Len(standardizations) THEN normalized
    ELSE LET abbrev == standardizations[k][1]
             full   == standardizations[k][2]
         IN  IF normalized = abbrev \/ EndsWith(normalized, <<" ">> \o abbrev)
             THEN Standardize(Replace(normalized, abbrev, full), k + 1)
             ELSE Standardize(normalized, k + 1)

\* the loop over translations, from entry k on
RECURSIVE Translate(_, _)
Translate(normalized, k) ==
    IF k > Len(translations) THEN normalized
    ELSE LET eng  == translations[k][1]
             indo == translations[k][2]
         IN  IF Contains(normalized, eng)
             THEN Translate(Replace(normalized, eng, indo), k + 1)
             ELSE Translate(normalized, k + 1)

_normalize_field_name(field_name) ==
    Translate(Standardize(RemoveNoise(Strip(StrLower(field_name))), 1), 1)

----------------------------------------------------------------------------
(* OptimizedRegexExtractor._deduplicate_fields                             *)

\* the pattern names in the order of Python's str comparison
PatternNameOrder == <<"bracketed_labels", "dash_separated", "flexible_separators",
                      "formal_indonesian", "numbered_items", "standard_colon",
                      "table_format", "uppercase_labels">>
NameRank(name) == CHOOSE k \in 1..Len(PatternNameOrder) : PatternNameOrder[k] = name

\* a variant of the sort key with the line number descending
SortKeyLess_LastLine(x, y) ==
    \/ FLt(y.confidence, x.confidence)
    \/ /\ x.confidence = y.confidence
       /\ \/ x.line_number > y.line_number
          \/ /\ x.line_number = y.line_number
             /\ NameRank(x.pattern_used) < NameRank(y.pattern_used)

\* a variant of the sort key with the line number before the confidence
SortKeyLess_LineFirst(x, y) ==
    \/ x.line_number < y.line_number
    \/ /\ x.line_number = y.line_number
       /\ \/ FLt(y.confidence, x.confidence)
          \/ /\ x.confidence = y.confidence
             /\ NameRank(x.pattern_used) < NameRank(y.pattern_used)

\* a variant of the sort key with the confidence ascending
SortKeyLess_LowestFirst(x, y) ==
    \/ FLt(x.confidence, y.confidence)
    \/ /\ x.confidence = y.confidence
       /\ \/ x.line_number < y.line_number
          \/ /\ x.line_number = y.line_number
             /\ NameRank(x.pattern_used) < NameRank(y.pattern_used)

\* the sort key (-x.confidence, x.line_number, x.pattern_used) of x is below that of y
SortKeyLess(x, y) ==
    \/ FLt(y.confidence, x.confidence)
    \/ /\ x.confidence = y.confidence
       /\ \/ x.line_number < y.line_number
          \/ /\ x.line_number = y.line_number
             /\ NameRank(x.pattern_used) < NameRank(y.pattern_used)

\* list.sort(key=...): stable, by insertion
RECURSIVE InsertSorted(_, _)
InsertSorted(sorted, x) ==
    IF sorted = <<>> THEN <<x>>
    ELSE IF SortKeyLess(x, Head(sorted)) THEN <<x>> \o sorted
    ELSE <<Head(sorted)>> \o InsertSorted(Tail(sorted), x)
RECURSIVE SortGroup(_, _)
SortGroup(group, n) ==
    IF n = 0 THEN <<>> ELSE InsertSorted(SortGroup(group, n - 1), group[n])


\* a variant that puts every candidate in one group
GroupingKey_OneGroup(match) == <<>>

\* a variant that groups by the label as written
GroupingKey_Raw(match) == match.key

\* normalized_key = self._normalize_field_name(match.key)
GroupingKey(match) == _normalize_field_name(match.key)

\* the keys of field_groups in dict order: the normalised names, first come first
RECURSIVE GroupKeys(_, _, _)
GroupKeys(matches, k, seen) ==
    IF k > Len(matches) THEN <<>>
    ELSE LET normalized_key == GroupingKey(matches[k])
         IN  IF normalized_key \in seen THEN GroupKeys(matches, k + 1, seen)
             ELSE <<normalized_key>> \o GroupKeys(matches, k + 1, seen \cup {normalized_key})

\* field_groups[normalized_key]
FieldGroup(matches, normalized_key) ==
    SelectIdx(matches,
              {i \in 1..Len(matches) : GroupingKey(matches[i]) = normalized_key}, 1)

\* the best match of a group: group[0] after the sort
BestMatch(group) == SortGroup(group, Len(group))[1]

\* d[f.key] = f on a dict kept as the sequence of its values in insertion order
DictPut(d, f) ==
    IF \E i \in 1..Len(d) : d[i].key = f.key
    THEN [i \in 1..Len(d) |-> IF d[i].key = f.key THEN f ELSE d[i]]
    ELSE Append(d, f)

\* the loop over field_groups.items(), from group k on
RECURSIVE SelectBest(_, _, _, _)
SelectBest(matches, keys, k, best_matches) ==
    IF k > Len(keys) THEN best_matches
    ELSE SelectBest(matches, keys, k + 1,
                    DictPut(best_matches, BestMatch(FieldGroup(matches, keys[k]))))

_deduplicate_fields(matches) ==
    IF matches = <<>> THEN <<>>
    ELSE SelectBest(matches, GroupKeys(matches, 1, {}), 1, <<>>)

----------------------------------------------------------------------------
(* OptimizedRegexExtractor.extract_fields_advanced                         *)

\* a variant with the comparison reversed
MeetsThreshold_Reversed(confidence, threshold) == FLe(confidence, threshold)

\* if confidence >= min_confidence
MeetsThreshold(confidence, threshold) == FGe(confidence, threshold)


\* a variant that lets every key and value through
OutOfBounds_Never(key, value) == FALSE

\* lines 126-127: the key or the value is too short or too long
OutOfBounds(key, value) ==
    Len(key) < 2 \/ Len(key) > 40 \/ Len(value) < 1 \/ Len(value) > 100

\* the candidates of the matches of one pattern on one line, from match k on
RECURSIVE ScanMatches(_, _, _, _, _, _)
ScanMatches(matches, k, pat, line, line_num, threshold) ==
    IF k > Len(matches) THEN <<>>
    ELSE LET key   == Strip(matches[k][1])
             value == Strip(matches[k][2])
             confidence == _calculate_confidence(key, value, pat.base, line, pat.name)
             rest  == ScanMatches(matches, k + 1, pat, line, line_num, threshold)
         IN  IF OutOfBounds(key, value)
             THEN rest
             ELSE IF MeetsThreshold(confidence, threshold)
             THEN <<[key |-> key, value |-> value, confidence |-> confidence,
                     pattern_used |-> pat.name, line_number |-> line_num]>> \o rest
             ELSE rest

\* the loop over self.compiled_patterns for one line, from pattern k on, for
\* an instance whose compiled_patterns is patterns
RECURSIVE ScanCatalog(_, _, _, _, _)
ScanCatalog(patterns, k, line, line_num, threshold) ==
    IF k > Len(patterns) THEN <<>>
    ELSE ScanMatches(FindAll(patterns[k].re, line), 1, patterns[k], line, line_num, threshold)
         \o ScanCatalog(patterns, k + 1, line, line_num, threshold)

\* the same loop for an instance as __init__ leaves it
ScanPatterns(k, line, line_num, threshold) ==
    ScanCatalog(compiled_patterns, k, line, line_num, threshold)

\* the loop over enumerate(lines), from line k on (line_num = k - 1)
RECURSIVE ScanLines(_, _, _)
ScanLines(lines, k, threshold) ==
    IF k > Len(lines) THEN <<>>
    ELSE LET line == Strip(lines[k])
         IN  (IF Len(line) < 5 THEN <<>> ELSE ScanPatterns(1, line, k - 1, threshold))
             \o ScanLines(lines, k + 1, threshold)

\* all_matches when the scan is over
AllMatches(txt, threshold) ==
    IF txt = <<>> \/ Strip(txt) = <<>> THEN <<>>
    ELSE ScanLines(Split(txt, "\n"), 1, threshold)


\* a variant that reports a text without candidates as a field of its own
extract_fields_advanced_Placeholder(txt, threshold) ==
    IF AllMatches(txt, threshold) = <<>>
    THEN <<[key |-> <<>>, value |-> txt, confidence |-> F0_0, pattern_used |-> "none",
            line_number |-> 0]>>
    ELSE _deduplicate_fields(AllMatches(txt, threshold))

extract_fields_advanced(txt, threshold) == _deduplicate_fields(AllMatches(txt, threshold))

----------------------------------------------------------------------------
(* extract_fields_advanced when applying one pattern to one line raises    *)

\* an exception on its way out of the scan: it ends the list of the
\* candidates appended before it was raised
Raised == [key |-> <<>>, value |-> <<>>, confidence |-> F0_0,
           pattern_used |-> "raised", line_number |-> -1]
Raises(tried) == tried # <<>> /\ tried[Len(tried)] = Raised
Found(tried) == IF Raises(tried) THEN SubSeq(tried, 1, Len(tried) - 1) ELSE tried
\* what is done next is done only if nothing was raised before
Then(tried, next) == IF Raises(tried) THEN tried ELSE tried \o next

\* the body of the try of line 118-143 for one pattern on one line, from
\* match k on, where scoring_raises tells that _calculate_confidence raises
RECURSIVE TryMatches(_, _, _, _, _, _, _)
TryMatches(matches, k, pat, line, line_num, threshold, scoring_raises) ==
    IF k > Len(matches) THEN <<>>
    ELSE LET key   == Strip(matches[k][1])
             value == Strip(matches[k][2])
             confidence == _calculate_confidence(key, value, pat.base, line, pat.name)
         IN  IF OutOfBounds(key, value)
             THEN TryMatches(matches, k + 1, pat, line, line_num, threshold, scoring_raises)
             ELSE IF scoring_raises
             THEN <<Raised>>
             ELSE IF MeetsThreshold(confidence, threshold)
             THEN <<[key |-> key, value |-> value, confidence |-> confidence,
                     pattern_used |-> pat.name, line_number |-> line_num]>>
                  \o TryMatches(matches, k + 1, pat, line, line_num, threshold, scoring_raises)
             ELSE TryMatches(matches, k + 1, pat, line, line_num, threshold, scoring_raises)

\* the same for pattern k, where fault names the (pattern, line) on which
\* findall ("findall") or the scoring of a match ("score") raises
TryPattern(k, line, line_num, threshold, fault) ==
    LET hit == fault # None /\ fault[1].pattern = k /\ fault[1].line_number = line_num
    IN  IF hit /\ fault[1].stage = "findall"
        THEN <<Raised>>
        ELSE TryMatches(FindAll(compiled_patterns[k].re, line), 1, compiled_patterns[k],
                        line, line_num, threshold, hit /\ fault[1].stage = "score")

\* a variant without the handler: the exception leaves the loop
Except_Propagates(tried) == tried

\* line 145-147: except Exception as e: logging.debug(...); continue
Except(tried) == Found(tried)

\* the loop over self.compiled_patterns for one line, from pattern k on
RECURSIVE TryCatalog(_, _, _, _, _)
TryCatalog(k, line, line_num, threshold, fault) ==
    IF k > Len(compiled_patterns) THEN <<>>
    ELSE Then(Except(TryPattern(k, line, line_num, threshold, fault)),
              TryCatalog(k + 1, line, line_num, threshold, fault))

\* the loop over enumerate(lines), from line k on (line_num = k - 1)
RECURSIVE TryLines(_, _, _, _)
TryLines(lines, k, threshold, fault) ==
    IF k > Len(lines) THEN <<>>
    ELSE Then(IF Len(Strip(lines[k])) < 5 THEN <<>>
              ELSE TryCatalog(1, Strip(lines[k]), k - 1, threshold, fault),
              TryLines(lines, k + 1, threshold, fault))

\* all_matches when the scan is over or has been left by an exception
TryAllMatches(txt, threshold, fault) ==
    IF txt = <<>> \/ Strip(txt) = <<>> THEN <<>>
    ELSE TryLines(Split(txt, "\n"), 1, threshold, fault)

----------------------------------------------------------------------------
(* The template layer: validate_filename_component, validate_template_rules, *)
(* extract_pdf_fields and process_single_pdf                                 *)

\* the control characters \x00-\x1f that text can hold here
ControlCh == {"\t", "\n", "\r", "\f"}
\* [<>:"/\\|?*\x00-\x1f]
invalid_chars == {"<", ">", ":", "\"", "/", "\\", "|", "?", "*"} \cup ControlCh


\* a variant that returns the value as it is
validate_filename_component_Unchanged(value) == value

max_component_length == 100

validate_filename_component(value) ==
    IF value = <<>> THEN <<>>
    ELSE LET cleaned == StripChars(SubChars(value, invalid_chars, "-"), {".", " "})
         IN  IF Len(cleaned) > max_component_length
             THEN RStripChars(Slice(cleaned, 1, max_component_length), {".", " "})
             ELSE cleaned

\* validate_template_rules(rules): (is_valid, error_message)
validate_template_rules(rules) ==
    IF rules = <<>>
    THEN [is_valid |-> FALSE, error_msg |-> "Template harus memiliki minimal satu field/aturan"]
    ELSE IF Len(rules) > 10
    THEN [is_valid |-> FALSE, error_msg |-> "Template tidak boleh memiliki lebih dari 10 field"]
    ELSE IF Len(rules) # Cardinality({rules[i] : i \in 1..Len(rules)})
    THEN [is_valid |-> FALSE, error_msg |-> "Template tidak boleh memiliki field yang duplikat"]
    ELSE IF \E i \in 1..Len(rules) : rules[i] = <<>> \/ Strip(rules[i]) = <<>>
    THEN [is_valid |-> FALSE, error_msg |-> "Field template tidak boleh kosong"]
    ELSE IF \E i \in 1..Len(rules) : Len(Strip(rules[i])) > 50
    THEN [is_valid |-> FALSE, error_msg |-> "Field template terlalu panjang"]
    ELSE [is_valid |-> TRUE, error_msg |-> ""]

\* detected_fields: the dict field name -> value, in the order of the mapping
DetectedFields(extracted_fields_obj) ==
    [i \in 1..Len(extracted_fields_obj) |->
        [name |-> extracted_fields_obj[i].key, value |-> extracted_fields_obj[i].value]]

\* extract_pdf_fields, lines 495-505: the text of a file whose single page
\* holds page_text (each page's text and a newline)
PdfText(page_text) == page_text \o <<"\n">>

\* a variant that raises the message of the unreadable text when no field is found
extract_pdf_fields_SameMessage(f, txt, extracted_fields_obj) ==
    IF ~f.valid
    THEN [raised |-> TRUE, exc |-> "FileValidationError", msg |-> <<"validate_pdf_file">>,
          detected_fields |-> <<>>]
    ELSE IF Strip(txt) = <<>> \/ DetectedFields(extracted_fields_obj) = <<>>
    THEN [raised |-> TRUE, exc |-> "PDFProcessingError",
          msg |-> <<"Error membaca PDF", "Tidak ada teks yang dapat dibaca dari PDF">>,
          detected_fields |-> <<>>]
    ELSE [raised |-> FALSE, exc |-> "", msg |-> <<>>,
          detected_fields |-> DetectedFields(extracted_fields_obj)]

\* extract_pdf_fields on a file f with the text txt: the dict returned, or the
\* exception raised.  extracted_fields_obj is what
\* extractor.extract_fields_advanced(text, min_confidence) returns at line 520.
\* The two PDFProcessingErrors raised inside the try blocks are caught by
\* their "except Exception" and raised again inside that handler's message.
extract_pdf_fields(f, txt, extracted_fields_obj) ==
    IF ~f.valid
    THEN [raised |-> TRUE, exc |-> "FileValidationError", msg |-> <<"validate_pdf_file">>,
          detected_fields |-> <<>>]
    ELSE IF Strip(txt) = <<>>
    THEN [raised |-> TRUE, exc |-> "PDFProcessingError",
          msg |-> <<"Error membaca PDF", "Tidak ada teks yang dapat dibaca dari PDF">>,
          detected_fields |-> <<>>]
    ELSE LET detected_fields == DetectedFields(extracted_fields_obj)
         IN  IF detected_fields = <<>>
             THEN [raised |-> TRUE, exc |-> "PDFProcessingError",
                   msg |-> <<"Error saat ekstraksi field dari",
                             "Tidak ada field yang dapat dideteksi dari PDF dengan confidence >=">>,
                   detected_fields |-> <<>>]
             ELSE [raised |-> FALSE, exc |-> "", msg |-> <<>>,
                   detected_fields |-> detected_fields]

\* rule in fields_in_file, and fields_in_file[rule]
HasField(fields_in_file, rule) == \E i \in 1..Len(fields_in_file) : fields_in_file[i].name = rule
FieldValue(fields_in_file, rule) ==
    fields_in_file[CHOOSE i \in 1..Len(fields_in_file) : fields_in_file[i].name = rule].value


\* a variant of the loop that leaves out a rule it cannot fill
RECURSIVE ApplyRules_Partial(_, _, _, _, _)
ApplyRules_Partial(rules, k, fields_in_file, missing_fields, new_name_parts) ==
    IF k > Len(rules) THEN [missing_fields |-> missing_fields, new_name_parts |-> new_name_parts]
    ELSE LET rule == rules[k]
             clean_value == IF HasField(fields_in_file, rule)
                            THEN validate_filename_component(FieldValue(fields_in_file, rule))
                            ELSE <<>>
         IN  ApplyRules_Partial(rules, k + 1, fields_in_file, missing_fields,
                                IF clean_value # <<>> THEN Append(new_name_parts, clean_value)
                                ELSE new_name_parts)

\* the loop over rules, from rule k on: (missing_fields, new_name_parts)
RECURSIVE ApplyRules(_, _, _, _, _)
ApplyRules(rules, k, fields_in_file, missing_fields, new_name_parts) ==
    IF k > Len(rules) THEN [missing_fields |-> missing_fields, new_name_parts |-> new_name_parts]
    ELSE LET rule == rules[k]
         IN  IF HasField(fields_in_file, rule)
             THEN LET clean_value == validate_filename_component(FieldValue(fields_in_file, rule))
                  IN  IF clean_value # <<>>
                      THEN ApplyRules(rules, k + 1, fields_in_file, missing_fields,
                                      Append(new_name_parts, clean_value))
                      ELSE ApplyRules(rules, k + 1, fields_in_file,
                                      Append(missing_fields,
                                             [rule |-> rule, why |-> "nilai kosong setelah dibersihkan"]),
                                      new_name_parts)
             ELSE ApplyRules(rules, k + 1, fields_in_file,
                             Append(missing_fields, [rule |-> rule, why |-> ""]), new_name_parts)

\* the separator process_single_pdf joins with
CleanSeparator(pemisah) ==
    LET separator == IF pemisah = <<>> \/ Len(Strip(pemisah)) = 0 THEN <<" ", "-", " ">> ELSE pemisah
        cleaned   == validate_filename_component(separator)
    IN  IF cleaned = <<>> THEN <<"-">> ELSE cleaned

Failure(msg, missing) ==
    [new_name |-> None, content |-> None, error |-> Some([msg |-> msg, missing |-> missing])]

max_name_length == 200


\* a variant that accepts a name of any length
NameTooLong_Never(new_name) == FALSE

\* line 637: if len(new_name) > 200
NameTooLong(new_name) == Len(new_name) > max_name_length

\* a variant that returns what it read, empty or not
ReadFile_NoEmptyCheck(f, new_name) ==
    IF f.content = "unreadable" THEN Failure(<<"Error membaca file">>, <<>>)
    ELSE [new_name |-> Some(new_name), content |-> Some(f.content), error |-> None]

\* lines 646-658: the file is read; an error of open or read, or an empty
\* content, gives a failure
ReadFile(f, new_name) ==
    IF f.content = "unreadable" THEN Failure(<<"Error membaca file">>, <<>>)
    ELSE IF f.content = "empty" THEN Failure(<<"File PDF kosong">>, <<>>)
    ELSE [new_name |-> Some(new_name), content |-> Some(f.content), error |-> None]

\* process_single_pdf(file_path, template) for the file f with the text txt:
\* the tuple (new_name, content, error_message).  extracted_fields_obj is what
\* the extractor returns for txt at the threshold 0.6 of line 606.
process_single_pdf(f, tpl, txt, extracted_fields_obj) ==
    LET rules    == tpl.aturan
        checked  == validate_template_rules(rules)
        separator == CleanSeparator(tpl.pemisah)
        got      == extract_pdf_fields(f, txt, extracted_fields_obj)
        applied  == ApplyRules(rules, 1, got.detected_fields, <<>>, <<>>)
        new_name == Join(applied.new_name_parts, separator)
    IN  IF ~checked.is_valid THEN Failure(<<"Template tidak valid", checked.error_msg>>, <<>>)
        ELSE IF got.raised THEN Failure(got.msg, <<>>)
        ELSE IF applied.missing_fields # <<>>
        THEN Failure(<<"Field tidak ditemukan atau kosong">>, applied.missing_fields)
        ELSE IF applied.new_name_parts = <<>>
        THEN Failure(<<"Tidak ada bagian nama file yang valid setelah pembersihan">>, <<>>)
        ELSE IF NameTooLong(new_name)
        THEN Failure(<<"Nama file terlalu panjang">>, <<>>)
        ELSE ReadFile(f, new_name \o <<".", "p", "d", "f">>)

\* zip_tools.validate_zip_data, lines 90-101: the checks made on each file
\* name of renamed_data (a str): not blank, at most 255 characters, without
\* '..', without a leading '/', without a backslash
FileNameAccepted(filename) ==
    /\ Strip(filename) # <<>>
    /\ ~(Len(filename) > 255)
    /\ ~(Contains(filename, <<".", ".">>) \/ (filename # <<>> /\ filename[1] = "/")
            \/ Contains(filename, <<"\\">>))

\* PDFRenamerApp.update_process_format_label: the format string shown for a
\* template whose rules are filled with the given parts, separator.join(...) + ".pdf"
format_str(separator, parts) == Join(parts, separator) \o <<".", "p", "d", "f">>

----------------------------------------------------------------------------
(* The inputs                                                              *)

\* the longest text, in lines, built from CoreLines
MaxLines == 2

\* lines that are put together into texts of up to MaxLines lines:
\*   'Nama: Budi'
\*   'Alamat: Jakarta'
\*   'Name: A'
\*   'Name: B'
\*   'Nama - Budi'
\*   'nama: Budi'
CoreLines == {
    <<"N","a","m","a",":"," ","B","u","d","i">>,
    <<"A","l","a","m","a","t",":"," ","J","a","k","a","r","t","a">>,
    <<"N","a","m","e",":"," ","A">>,
    <<"N","a","m","e",":"," ","B">>,
    <<"N","a","m","a"," ","-"," ","B","u","d","i">>,
    <<"n","a","m","a",":"," ","B","u","d","i">> }

\* lines that make a text on their own:
\*   'dan atau dari: untuk'
\*   'Data dari: Budi'
\*   'Tanggal dari: 12/12/2020'
\*   'dari: x'
\*   'NIK: 1234567890123456'
\*   'Nama: a/b'
\*   'Nama: ...'
\*   'Kelas: A'
\*   'Email: a@b.co'
\*   'TOTAL  Rp 1.000'
\*   '[Telp] 081234567890'
\*   '1. Nama: Budi'
\*   'Judul = X-1'
\*   'ab:c'
\*   'a  : xyz'
\*   'Nama: a<TAB>b'
\*   'Nama: a..b'
ExtraLines == {
    <<"d","a","n"," ","a","t","a","u"," ","d","a","r","i",":"," ","u","n","t","u","k">>,
    <<"D","a","t","a"," ","d","a","r","i",":"," ","B","u","d","i">>,
    <<"T","a","n","g","g","a","l"," ","d","a","r","i",":"," ","1","2","/","1","2","/","2","0","2","0">>,
    <<"d","a","r","i",":"," ","x">>,
    <<"N","I","K",":"," ","1","2","3","4","5","6","7","8","9","0","1","2","3","4","5","6">>,
    <<"N","a","m","a",":"," ","a","/","b">>,
    <<"N","a","m","a",":"," ",".",".",".">>,
    <<"K","e","l","a","s",":"," ","A">>,
    <<"E","m","a","i","l",":"," ","a","@","b",".","c","o">>,
    <<"T","O","T","A","L"," "," ","R","p"," ","1",".","0","0","0">>,
    <<"[","T","e","l","p","]"," ","0","8","1","2","3","4","5","6","7","8","9","0">>,
    <<"1","."," ","N","a","m","a",":"," ","B","u","d","i">>,
    <<"J","u","d","u","l"," ","="," ","X","-","1">>,
    <<"a","b",":","c">>,
    <<"a"," "," ",":"," ","x","y","z">>,
    <<"N","a","m","a",":"," ","a","\t","b">>,
    <<"N","a","m","a",":"," ","a",".",".","b">> }

\* the empty text and a text of whitespace only
BlankTexts == {<<>>, <<" ", "\n", "\t">>}

\* the sequences of 1..n elements of S
RECURSIVE SeqsUpTo(_, _)
SeqsUpTo(S, n) ==
    IF n = 0 THEN {<<>>}
    ELSE LET shorter == SeqsUpTo(S, n - 1)
         IN  shorter \cup {Append(q, x) : q \in shorter, x \in S}

\* n times the character c
Repeat(c, n) == [k \in 1..n |-> c]

\* two fields with values of 100 and 100, and of 100 and 99 characters
LongTexts == {
    <<"N","a","m","a",":"," ">> \o Repeat("x", 100) \o <<"\n","A","l","a","m","a","t",":"," ">>
        \o Repeat("y", n) : n \in {99, 100} }

Texts ==
    {Join(ls, <<"\n">>) : ls \in SeqsUpTo(CoreLines, MaxLines) \ {<<>>}}
    \cup ExtraLines \cup BlankTexts \cup LongTexts

\* the thresholds of the callers: 0.0, 0.5, the default 0.6, and 0.95
Thresholds == {F0_0, F0_50, F0_6, F0_95}

Templates == {
    [aturan |-> <<<<"N","a","m","a">>, <<"A","l","a","m","a","t">>>>, pemisah |-> <<" ", "-", " ">>],
    [aturan |-> <<<<"N","a","m","a">>, <<"A","l","a","m","a","t">>>>, pemisah |-> <<"_">>],
    [aturan |-> <<<<"n","a","m","a">>>>, pemisah |-> <<"_">>],
    [aturan |-> <<<<"N","a","m","e">>>>, pemisah |-> <<"/">>],
    [aturan |-> <<<<"N","a","m","a">>>>, pemisah |-> <<"|">>],
    [aturan |-> <<<<"N","a","m","a">>, <<"A","l","a","m","a","t">>>>, pemisah |-> <<"/">>],
    [aturan |-> <<>>, pemisah |-> <<" ", "-", " ">>] }

\* a file on disk: what validate_pdf_file says of it, and what reading it gives
Files == {[valid |-> TRUE,  content |-> "bytes"],
          [valid |-> FALSE, content |-> "bytes"],
          [valid |-> TRUE,  content |-> "unreadable"],
          [valid |-> TRUE,  content |-> "empty"]}

NoTemplate == [aturan |-> <<>>, pemisah |-> <<>>]
NoFile == [valid |-> FALSE, content |-> "none"]
NoOutcome == [new_name |-> None, content |-> None, error |-> None]

----------------------------------------------------------------------------
(* The state machine: a document, and one call made on it                  *)



\* the threads that extract: the UI (detect_fields_from_sample) and the BulkProcessWorker
Threads == {"ui", "worker"}

\* a thread that is not in a call
IdleThread(todo) ==
    [todo |-> todo, pc |-> "idle", self |-> 0, text |-> <<>>, min_confidence |-> F0_6,
     lines |-> <<>>, line_num |-> 0, all_matches |-> <<>>]

\* no application of a pattern fails
NoFault ==
    /\ failing = None
    /\ scan_raised = FALSE

\* the window as built: the run button enabled, the stop button disabled (line 516, 536)
NoRun ==
    /\ process_run_btn = TRUE
    /\ process_stop_btn = FALSE
    /\ handled = 0

\* save_zip has not been called
NoZip ==
    /\ zip_data = <<>>
    /\ existing = None
    /\ save_path_file = None
    /\ temp_file = None
    /\ backup_file = None
    /\ zip_pc = "none"
    /\ zip_error = None

\* no extractor has been asked for
NoCalls ==
    /\ _extractor_instance = None
    /\ instances = <<>>
    /\ threads = [th \in Threads |-> IdleThread(<<>>)]
    /\ history = <<>>

\* no BulkProcessWorker exists
NoWorker ==
    /\ uploaded_files = <<>>
    /\ is_running = FALSE
    /\ success_count = 0
    /\ error_count = 0
    /\ file_index = 0
    /\ renamed_data = <<>>
    /\ file_processed = <<>>
    /\ progress = <<>>
    /\ signals = <<>>
    /\ log = <<>>

Init ==
    /\ NoZip
    /\ NoRun
    /\ NoFault
    /\ text \in Texts
    /\ pc = "init"
    /\ min_confidence = F0_6
    /\ all_matches = <<>>
    /\ fields = <<>>
    /\ template = NoTemplate
    /\ file = NoFile
    /\ outcome = NoOutcome
    /\ raw_label = <<>>
    /\ canonical = <<>>
    /\ NoWorker
    /\ NoCalls

\* extractor.extract_fields_advanced(text, threshold)
ExtractFieldsAdvanced ==
    /\ pc = "init"
    /\ \E threshold \in Thresholds :
          /\ min_confidence' = threshold
          /\ all_matches' = AllMatches(text, threshold)
          /\ fields' = extract_fields_advanced(text, threshold)
    /\ pc' = "extracted"
    /\ UNCHANGED <<zipVars, uiVars, faultVars, text, template, file, outcome, raw_label, canonical, workerVars, callVars>>

\* process_single_pdf(file_path, template) on the file whose page holds text
ProcessSinglePdf ==
    /\ pc = "init"
    /\ min_confidence' = F0_6
    /\ all_matches' = AllMatches(PdfText(text), min_confidence')
    /\ fields' = extract_fields_advanced(PdfText(text), min_confidence')
    /\ \E tpl \in Templates, f \in Files :
          /\ template' = tpl
          /\ file' = f
          /\ outcome' = process_single_pdf(f, tpl, PdfText(text), fields')
    /\ pc' = "processed"
    /\ UNCHANGED <<zipVars, uiVars, faultVars, text, raw_label, canonical, workerVars, callVars>>

Next == ExtractFieldsAdvanced \/ ProcessSinglePdf

Spec == Init /\ [][Next]_vars

----------------------------------------------------------------------------
(* _normalize_field_name as a function of any label: the labels are built  *)
(* from the tokens of its tables                                            *)

\* the longest label, in pieces
MaxPieces == 3

\* noise words, abbreviations, translated words, two neutral fragments and a space
Pieces == {
    <<"n","o">>, <<"i","d">>, <<"n","m">>, <<"h","p">>, <<"s","t","a","t">>, <<"n","a","m","e">>,
    <<"p","h","o","n","e">>, <<"d","a">>, <<"x">>, <<" ">> }

RECURSIVE Concat(_)
Concat(ps) == IF ps = <<>> THEN <<>> ELSE Head(ps) \o Concat(Tail(ps))

Labels == {Concat(ps) : ps \in SeqsUpTo(Pieces, MaxPieces) \ {<<>>}}

InitNorm ==
    /\ NoZip
    /\ NoRun
    /\ NoFault
    /\ raw_label \in Labels
    /\ canonical = <<>>
    /\ pc = "label"
    /\ text = <<>>
    /\ min_confidence = F0_6
    /\ all_matches = <<>>
    /\ fields = <<>>
    /\ template = NoTemplate
    /\ file = NoFile
    /\ outcome = NoOutcome
    /\ NoWorker
    /\ NoCalls

\* self._normalize_field_name(raw_label)
NormalizeFieldName ==
    /\ pc = "label"
    /\ canonical' = <<_normalize_field_name(raw_label)>>
    /\ pc' = "normalized"
    /\ UNCHANGED <<zipVars, uiVars, faultVars, raw_label, text, min_confidence, all_matches, fields, template, file, outcome,
                   workerVars, callVars>>

\* self._normalize_field_name applied to the canonical key it returned
NormalizeAgain ==
    /\ pc = "normalized"
    /\ canonical' = Append(canonical, _normalize_field_name(canonical[1]))
    /\ pc' = "renormalized"
    /\ UNCHANGED <<zipVars, uiVars, faultVars, raw_label, text, min_confidence, all_matches, fields, template, file, outcome,
                   workerVars, callVars>>

NextNorm == NormalizeFieldName \/ NormalizeAgain

SpecNorm == InitNorm /\ [][NextNorm]_vars

----------------------------------------------------------------------------
(* extract_fields_advanced on a text, with one application of a pattern to *)
(* a line that raises                                                      *)

\* 'Nama: Budi\nAlamat: Jakarta', 'Name: A\nName: B', 'NAMA: BUDI',
\* 'Nama - Budi\nnama: Budi', 'Nama = Budi', '1. Nama: Budi\n[Nama] Budi'
FaultTexts == {
    <<"N","a","m","a",":"," ","B","u","d","i","\n","A","l","a","m","a","t",":"," ","J","a","k","a","r","t","a">>,
    <<"N","a","m","e",":"," ","A","\n","N","a","m","e",":"," ","B">>,
    <<"N","A","M","A",":"," ","B","U","D","I">>,
    <<"N","a","m","a"," ","-"," ","B","u","d","i","\n","n","a","m","a",":"," ","B","u","d","i">>,
    <<"N","a","m","a"," ","="," ","B","u","d","i">>,
    <<"1","."," ","N","a","m","a",":"," ","B","u","d","i","\n","[","N","a","m","a","]"," ","B","u","d","i">> }

\* the applications of a pattern to a line of txt that can raise
Faults(txt) ==
    [pattern : Indices(compiled_patterns),
     line_number : 0..(Len(Split(txt, "\n")) - 1),
     stage : {"findall", "score"}]

InitFaulty ==
    /\ NoZip
    /\ NoRun
    /\ text \in FaultTexts
    /\ failing \in {Some(f) : f \in Faults(text)}
    /\ scan_raised = FALSE
    /\ pc = "init"
    /\ min_confidence = F0_6
    /\ all_matches = <<>>
    /\ fields = <<>>
    /\ template = NoTemplate
    /\ file = NoFile
    /\ outcome = NoOutcome
    /\ raw_label = <<>>
    /\ canonical = <<>>
    /\ NoWorker
    /\ NoCalls

\* extractor.extract_fields_advanced(text, threshold) during which the
\* application named by failing raises
ExtractWithFailure ==
    /\ pc = "init"
    /\ failing # None
    /\ \E threshold \in {F0_0, F0_6} :
          /\ min_confidence' = threshold
          /\ \E tried \in {TryAllMatches(text, threshold, failing)} :
                /\ all_matches' = Found(tried)
                /\ scan_raised' = Raises(tried)
    /\ fields' = IF scan_raised' THEN <<>> ELSE _deduplicate_fields(all_matches')
    /\ pc' = IF scan_raised' THEN "raised" ELSE "extracted"
    /\ UNCHANGED <<zipVars, uiVars, text, failing, template, file, outcome, raw_label, canonical,
                   workerVars, callVars>>

NextFaulty == ExtractWithFailure

SpecFaulty == InitFaulty /\ [][NextFaulty]_vars

----------------------------------------------------------------------------

(* BulkProcessWorker: one batch of documents renamed with one template     *)

\* utils.validate_template_structure(template): (is_valid, error_message);
\* the template is a dict whose 'aturan' is a list of strings
validate_template_structure(tpl) ==
    LET rules == tpl.aturan
        BadRule(k) == Strip(rules[k]) = <<>> \/ Len(Strip(rules[k])) > 50
    IN  IF Len(rules) = 0
        THEN [is_valid |-> FALSE, error_msg |-> <<"Template harus memiliki minimal satu aturan">>]
        ELSE IF Len(rules) > 10
        THEN [is_valid |-> FALSE, error_msg |-> <<"Template tidak boleh memiliki lebih dari 10 aturan">>]
        ELSE IF \E k \in 1..Len(rules) : BadRule(k)
        THEN LET k == CHOOSE j \in 1..Len(rules) : BadRule(j) /\ \A h \in 1..(j - 1) : ~BadRule(h)
             IN  IF Strip(rules[k]) = <<>>
                 THEN [is_valid |-> FALSE, error_msg |-> <<"Aturan tidak boleh kosong", k>>]
                 ELSE [is_valid |-> FALSE, error_msg |-> <<"Aturan terlalu panjang", k>>]
        ELSE IF Len(rules) # Cardinality({rules[k] : k \in 1..Len(rules)})
        THEN [is_valid |-> FALSE, error_msg |-> <<"Template tidak boleh memiliki aturan yang duplikat">>]
        ELSE IF Len(tpl.pemisah) > 10
        THEN [is_valid |-> FALSE, error_msg |-> <<"Pemisah terlalu panjang (maksimal 10 karakter)">>]
        ELSE [is_valid |-> TRUE, error_msg |-> <<>>]

\* str(counter)
RECURSIVE NatStr(_)
NatStr(n) ==
    LET digit == <<"0", "1", "2", "3", "4", "5", "6", "7", "8", "9">>[(n % 10) + 1]
    IN  IF n < 10 THEN <<digit>> ELSE Append(NatStr(n \div 10), digit)

\* original_new_name.rsplit('.', 1): the position of the last '.'
LastDot(name) == CHOOSE k \in 1..Len(name) : name[k] = "." /\ \A j \in (k + 1)..Len(name) : name[j] # "."

\* the while loop of lines 72-75: the first of name_1.ext, name_2.ext, ...
\* that is not a key of renamed_data
RECURSIVE SuffixedName(_, _, _)
SuffixedName(original_new_name, counter, data) ==
    LET name_part == Slice(original_new_name, 1, LastDot(original_new_name) - 1)
        ext       == Slice(original_new_name, LastDot(original_new_name) + 1, Len(original_new_name))
        new_name  == name_part \o <<"_">> \o NatStr(counter) \o <<".">> \o ext
    IN  IF \E k \in 1..Len(data) : data[k] = new_name
        THEN SuffixedName(original_new_name, counter + 1, data)
        ELSE new_name

\* a variant that stores a renamed document under its name as it is
FreeName_AsIs(new_name, data) == new_name

\* lines 70-75: the key under which a renamed document is stored
FreeName(new_name, data) ==
    IF \E k \in 1..Len(data) : data[k] = new_name THEN SuffixedName(new_name, 1, data) ELSE new_name


\* a variant of the loop that ends at the first file that fails
NextFile_StopOnFailure(index, failed, total_files) == IF failed THEN total_files ELSE index + 1

\* the for loop of line 59 goes on to the next file after a success (lines
\* 77-80) as after a failure (lines 82-86 and 88-93)
NextFile(index, failed, total_files) == index + 1

\* int((i + 1) / total_files * 90); the float expression equals the integer
\* quotient for every batch of fewer than 10 files
ProgressPercent(index, total_files) == ((index + 1) * 90) \div total_files

\* the longest batch, in files
MaxFiles == 2

\* the documents of a batch: the file, its text, and whether processing it
\* raises an exception that reaches the handler of line 88
Docs == {
    [file |-> [valid |-> TRUE,  content |-> "bytes"], raises |-> FALSE,
     text |-> <<"N","a","m","a",":"," ","B","u","d","i","\n","A","l","a","m","a","t",":"," ","J","a","k","a","r","t","a">>],
    [file |-> [valid |-> TRUE,  content |-> "bytes"], raises |-> FALSE,
     text |-> <<"N","a","m","a",":"," ","B","u","d","i">>],
    [file |-> [valid |-> FALSE, content |-> "bytes"], raises |-> FALSE,
     text |-> <<"N","a","m","a",":"," ","B","u","d","i","\n","A","l","a","m","a","t",":"," ","J","a","k","a","r","t","a">>],
    [file |-> [valid |-> TRUE,  content |-> "empty"], raises |-> FALSE,
     text |-> <<"N","a","m","a",":"," ","B","u","d","i","\n","A","l","a","m","a","t",":"," ","J","a","k","a","r","t","a">>],
    [file |-> [valid |-> TRUE,  content |-> "bytes"], raises |-> TRUE,
     text |-> <<"N","a","m","a",":"," ","B","u","d","i","\n","A","l","a","m","a","t",":"," ","J","a","k","a","r","t","a">>] }

\* run_bulk_process, lines 1099-1114: the buttons are switched, then
\* BulkProcessWorker(uploaded_files, template, save_path) and start()
InitBulk ==
    /\ NoZip
    /\ process_run_btn = FALSE
    /\ process_stop_btn = TRUE
    /\ handled = 0
    /\ NoFault
    /\ uploaded_files \in SeqsUpTo(Docs, MaxFiles) \ {<<>>}
    /\ template \in Templates
    /\ is_running = TRUE
    /\ success_count = 0
    /\ error_count = 0
    /\ file_index = 0
    /\ renamed_data = <<>>
    /\ file_processed = <<>>
    /\ progress = <<>>
    /\ signals = <<>>
    /\ log = <<>>
    /\ pc = "run"
    /\ text = <<>>
    /\ min_confidence = F0_6
    /\ all_matches = <<>>
    /\ fields = <<>>
    /\ file = NoFile
    /\ outcome = NoOutcome
    /\ raw_label = <<>>
    /\ canonical = <<>>
    /\ NoCalls

\* run, lines 46-57: the template is validated before the loop
ValidateTemplate ==
    /\ pc = "run"
    /\ LET checked == validate_template_structure(template)
       IN  IF checked.is_valid
           THEN /\ pc' = "loop"
                /\ signals' = signals
                /\ log' = Append(log, <<"Memulai proses", Len(uploaded_files)>>)
           ELSE /\ pc' = "returned"
                /\ signals' = Append(signals, [signal |-> "error",
                                               message |-> <<"Template tidak valid", checked.error_msg>>])
                /\ log' = Append(log, <<"Memulai proses", Len(uploaded_files)>>)
    /\ UNCHANGED <<zipVars, uiVars, faultVars, uploaded_files, is_running, success_count, error_count, file_index,
                   renamed_data, file_processed, progress, template,
                   text, min_confidence, all_matches, fields, file, outcome, raw_label, canonical, callVars>>

\* run, lines 60-62: the loop finds is_running cleared and returns
Cancelled ==
    /\ pc = "loop"
    /\ file_index < Len(uploaded_files)
    /\ ~is_running
    /\ log' = Append(log, <<"Proses dibatalkan oleh pengguna">>)
    /\ pc' = "returned"
    /\ UNCHANGED <<zipVars, uiVars, faultVars, uploaded_files, is_running, success_count, error_count, file_index,
                   renamed_data, file_processed, progress, signals, template,
                   text, min_confidence, all_matches, fields, file, outcome, raw_label, canonical, callVars>>

\* run, lines 64-97: one pass of the loop for the file uploaded_files[file_index + 1];
\* text, fields and outcome are those of the process_single_pdf call of line 66
ProcessFile ==
    /\ pc = "loop"
    /\ file_index < Len(uploaded_files)
    /\ is_running
    /\ file' = uploaded_files[file_index + 1].file
    /\ text' = uploaded_files[file_index + 1].text
    /\ min_confidence' = F0_6
    /\ all_matches' = AllMatches(PdfText(text'), F0_6)
    /\ fields' = _deduplicate_fields(all_matches')
    /\ outcome' = process_single_pdf(file', template, PdfText(text'), fields')
    /\ LET total_files == Len(uploaded_files)
           raised == uploaded_files[file_index + 1].raises
           ok == ~raised /\ outcome'.new_name # None /\ outcome'.new_name[1] # <<>>
                         /\ outcome'.content # None
           new_name == FreeName(outcome'.new_name[1], renamed_data)
           error_message == IF raised THEN <<"Error tak terduga">>
                            ELSE IF outcome'.error # None THEN outcome'.error[1]
                            ELSE <<"Gagal memproses file">>
       IN  /\ IF ok
              THEN /\ renamed_data' = Append(renamed_data, new_name)
                   /\ success_count' = success_count + 1
                   /\ error_count' = error_count
                   /\ file_processed' = Append(file_processed,
                          [file |-> file_index + 1, success |-> TRUE, message |-> new_name])
                   /\ log' = Append(log, <<"ok", file_index + 1, total_files>>)
              ELSE /\ renamed_data' = renamed_data
                   /\ success_count' = success_count
                   /\ error_count' = error_count + 1
                   /\ file_processed' = Append(file_processed,
                          [file |-> file_index + 1, success |-> FALSE, message |-> error_message])
                   /\ log' = Append(log, <<"gagal", file_index + 1, total_files>>)
           /\ progress' = Append(progress, ProgressPercent(file_index, total_files))
           /\ file_index' = NextFile(file_index, ~ok, total_files)
    /\ UNCHANGED <<zipVars, uiVars, faultVars, uploaded_files, is_running, signals, template, pc, raw_label, canonical, callVars>>

\* run, lines 99-125: the summary and the ZIP file; zip is what save_zip and
\* verify_zip_file do with renamed_data
Summary ==
    /\ pc = "loop"
    /\ file_index >= Len(uploaded_files)
    /\ \E zip \in {"saved", "not verified", "ZipError"} :
          IF renamed_data = <<>>
          THEN /\ signals' = Append(signals, [signal |-> "error",
                       message |-> <<"Tidak ada file yang berhasil diproses">>])
               /\ progress' = progress
               /\ log' = Append(log, <<"Ringkasan", success_count, error_count>>)
          ELSE /\ log' = Append(Append(log, <<"Ringkasan", success_count, error_count>>),
                                <<"Membuat file ZIP", Len(renamed_data)>>)
               /\ IF zip = "saved"
                  THEN /\ progress' = Append(progress, 100)
                       /\ signals' = Append(signals, [signal |-> "finished",
                               message |-> <<success_count, Len(uploaded_files)>>])
                  ELSE /\ progress' = progress
                       /\ signals' = Append(signals, [signal |-> "error", message |-> <<zip>>])
    /\ pc' = "returned"
    /\ UNCHANGED <<zipVars, uiVars, faultVars, uploaded_files, is_running, success_count, error_count, file_index,
                   renamed_data, file_processed, template,
                   text, min_confidence, all_matches, fields, file, outcome, raw_label, canonical, callVars>>

\* stop(), lines 130-131, called by the UI while the thread runs
Stop ==
    /\ pc \in {"run", "loop"}
    /\ process_stop_btn
    /\ is_running
    /\ is_running' = FALSE
    /\ UNCHANGED <<zipVars, uiVars, faultVars, uploaded_files, success_count, error_count, file_index, renamed_data,
                   file_processed, progress, signals, log, template, pc,
                   text, min_confidence, all_matches, fields, file, outcome, raw_label, canonical, callVars>>

\* on_bulk_process_finished, lines 1138-1155, run by the window for a finished signal
OnBulkProcessFinished ==
    /\ handled < Len(signals)
    /\ signals[handled + 1].signal = "finished"
    /\ process_run_btn' = TRUE
    /\ process_stop_btn' = FALSE
    /\ handled' = handled + 1
    /\ UNCHANGED <<zipVars, faultVars, workerVars, callVars, template, pc,
                   text, min_confidence, all_matches, fields, file, outcome, raw_label, canonical>>

\* on_bulk_process_error, lines 1160-1175, run by the window for an error signal
OnBulkProcessError ==
    /\ handled < Len(signals)
    /\ signals[handled + 1].signal = "error"
    /\ process_run_btn' = TRUE
    /\ process_stop_btn' = FALSE
    /\ handled' = handled + 1
    /\ UNCHANGED <<zipVars, faultVars, workerVars, callVars, template, pc,
                   text, min_confidence, all_matches, fields, file, outcome, raw_label, canonical>>

\* the steps of the worker thread
WorkerStep == ValidateTemplate \/ Cancelled \/ ProcessFile \/ Summary

NextBulk == WorkerStep \/ Stop \/ OnBulkProcessFinished \/ OnBulkProcessError

SpecBulk == InitBulk /\ [][NextBulk]_vars

----------------------------------------------------------------------------


(* get_regex_extractor and the extraction calls made through it by the      *)
(* threads of the application                                               *)

\* OptimizedRegexExtractor.__init__: the object constructed
NewExtractor == [compiled_patterns |-> compiled_patterns]


\* a variant in which a call removes the first pattern of the catalog
InstanceAfterCall_DropsPattern(instance) ==
    [compiled_patterns |-> Tail(instance.compiled_patterns)]

\* extract_fields_advanced and the methods it calls assign no attribute of
\* self and never change the list self.compiled_patterns: the instance after a call
InstanceAfterCall(instance) == instance


\* a variant in which every call appends to one list
MatchesOwner_Shared(th) == "ui"

\* all_matches = [] of line 108 is a local of the call: the thread whose list
\* the call of thread th appends to
MatchesOwner(th) == th

\* the texts the calls are made on
CallTexts == {
    <<"N","a","m","a",":"," ","B","u","d","i">>,
    <<"D","a","t","a"," ","d","a","r","i",":"," ","B","u","d","i">>,
    <<"N","a","m","e",":"," ","A","\n","N","a","m","e",":"," ","B">>, <<" ","\n">> }

\* a call: the arguments of extract_fields_advanced
Calls == [text : CallTexts, min_confidence : {F0_50, F0_6}]

\* get_regex_extractor, line 352, for the next call of thread th: the test of
\* the global
GetExtractorTest(th) ==
    /\ pc = "calls"
    /\ threads[th].pc = "idle"
    /\ threads[th].todo # <<>>
    /\ threads' = [threads EXCEPT
            ![th].pc = IF _extractor_instance = None THEN "construct" ELSE "return",
            ![th].text = Head(threads[th].todo).text,
            ![th].min_confidence = Head(threads[th].todo).min_confidence]
    /\ UNCHANGED <<zipVars, uiVars, faultVars, _extractor_instance, instances, history, workerVars, text, pc, min_confidence,
                   all_matches, fields, template, file, outcome, raw_label, canonical>>

\* get_regex_extractor, line 353: an extractor is constructed and stored in the global
GetExtractorConstruct(th) ==
    /\ pc = "calls"
    /\ threads[th].pc = "construct"
    /\ instances' = Append(instances, NewExtractor)
    /\ _extractor_instance' = Some(Len(instances) + 1)
    /\ threads' = [threads EXCEPT ![th].pc = "return"]
    /\ UNCHANGED <<zipVars, uiVars, faultVars, history, workerVars, text, pc, min_confidence,
                   all_matches, fields, template, file, outcome, raw_label, canonical>>

\* get_regex_extractor, line 354: the global is read and returned; then
\* extract_fields_advanced is called on it (line 520) and runs its lines 105-109
EnterExtract(th) ==
    /\ pc = "calls"
    /\ threads[th].pc = "return"
    /\ threads' = [[threads EXCEPT ![MatchesOwner(th)].all_matches = <<>>] EXCEPT
            ![th].pc = "scan",
            ![th].self = _extractor_instance[1],
            ![th].lines = IF threads[th].text = <<>> \/ Strip(threads[th].text) = <<>>
                          THEN <<>> ELSE Split(threads[th].text, "\n"),
            ![th].line_num = 0]
    /\ UNCHANGED <<zipVars, uiVars, faultVars, _extractor_instance, instances, history, workerVars, text, pc, min_confidence,
                   all_matches, fields, template, file, outcome, raw_label, canonical>>

\* extract_fields_advanced, lines 112-147, for one line of the text
ScanLine(th) ==
    /\ pc = "calls"
    /\ threads[th].pc = "scan"
    /\ threads[th].line_num < Len(threads[th].lines)
    /\ LET line == Strip(threads[th].lines[threads[th].line_num + 1])
           found == IF Len(line) < 5 THEN <<>>
                    ELSE ScanCatalog(instances[threads[th].self].compiled_patterns, 1, line,
                                     threads[th].line_num, threads[th].min_confidence)
       IN  threads' = [[threads EXCEPT ![MatchesOwner(th)].all_matches = @ \o found] EXCEPT
                          ![th].line_num = @ + 1]
    /\ UNCHANGED <<zipVars, uiVars, faultVars, _extractor_instance, instances, history, workerVars, text, pc, min_confidence,
                   all_matches, fields, template, file, outcome, raw_label, canonical>>

\* extract_fields_advanced, line 150 (line 106 for a blank text): the mapping is returned
ReturnFields(th) ==
    /\ pc = "calls"
    /\ threads[th].pc = "scan"
    /\ threads[th].line_num = Len(threads[th].lines)
    /\ history' = Append(history,
            [thread |-> th, text |-> threads[th].text, min_confidence |-> threads[th].min_confidence,
             self |-> threads[th].self,
             result |-> _deduplicate_fields(threads[MatchesOwner(th)].all_matches)])
    /\ instances' = [instances EXCEPT ![threads[th].self] = InstanceAfterCall(@)]
    /\ threads' = [threads EXCEPT ![th] = IdleThread(Tail(threads[th].todo))]
    /\ UNCHANGED <<zipVars, uiVars, faultVars, _extractor_instance, workerVars, text, pc, min_confidence,
                   all_matches, fields, template, file, outcome, raw_label, canonical>>

NextCalls ==
    \E th \in Threads :
        \/ GetExtractorTest(th)
        \/ GetExtractorConstruct(th)
        \/ EnterExtract(th)
        \/ ScanLine(th)
        \/ ReturnFields(th)

\* the state before any call, but for the calls the threads will make
InitCalls ==
    /\ NoZip
    /\ NoRun
    /\ NoFault
    /\ pc = "calls"
    /\ _extractor_instance = None
    /\ instances = <<>>
    /\ history = <<>>
    /\ NoWorker
    /\ text = <<>>
    /\ min_confidence = F0_6
    /\ all_matches = <<>>
    /\ fields = <<>>
    /\ template = NoTemplate
    /\ file = NoFile
    /\ outcome = NoOutcome
    /\ raw_label = <<>>
    /\ canonical = <<>>

\* one thread makes a call, any other call, and the first call again
InitRepeat ==
    /\ InitCalls
    /\ \E first \in Calls, other \in Calls :
          threads = [th \in Threads |->
                        IF th = "ui" THEN IdleThread(<<first, other, first>>) ELSE IdleThread(<<>>)]

SpecRepeat == InitRepeat /\ [][NextCalls]_vars

\* the two threads make one call each, at the same time
InitThreads ==
    /\ InitCalls
    /\ \E a \in Calls, b \in Calls :
          threads = [th \in Threads |-> IF th = "ui" THEN IdleThread(<<a>>) ELSE IdleThread(<<b>>)]

SpecThreads == InitThreads /\ [][NextCalls]_vars

\* the texts of FaultTexts and 'Data dari: Budi\nNama: Budi'
RaiseTexts == FaultTexts \cup {
    <<"D","a","t","a"," ","d","a","r","i",":"," ","B","u","d","i","\n","N","a","m","a",":"," ","B","u","d","i">> }

\* one thread extracts the fields of a text at a threshold and then at a
\* threshold that is not lower
InitRaise ==
    /\ InitCalls
    /\ \E txt \in RaiseTexts, c1 \in Thresholds, c2 \in Thresholds :
          /\ FLe(c1, c2)
          /\ threads = [th \in Threads |->
                IF th = "ui"
                THEN IdleThread(<<[text |-> txt, min_confidence |-> c1],
                                  [text |-> txt, min_confidence |-> c2]>>)
                ELSE IdleThread(<<>>)]

SpecRaise == InitRaise /\ [][NextCalls]_vars

----------------------------------------------------------------------------
(* zip_tools.save_zip: the archive is written to a temporary file that     *)
(* then takes the place of the target.  Every operation on the file system *)
(* can fail.                                                               *)

\* validate_zip_data, lines 77-118, for a dict of str names and bytes of a
\* size within the limits
validate_zip_data(renamed) ==
    /\ Len(renamed) # 0
    /\ \A k \in Indices(renamed) : FileNameAccepted(renamed[k].name)

\* the dicts given to save_zip: {}, {'a.pdf': b'%PDF'}, {'a.pdf': b''},
\* {'a..b.pdf': b'%PDF'}, {'a.pdf': b'%PDF', 'b.pdf': b''}
ZipInputs == {
    <<>>,
    <<[name |-> <<"a",".","p","d","f">>, content |-> "bytes"]>>,
    <<[name |-> <<"a",".","p","d","f">>, content |-> "empty"]>>,
    <<[name |-> <<"a",".",".","b",".","p","d","f">>, content |-> "bytes"]>>,
    <<[name |-> <<"a",".","p","d","f">>, content |-> "bytes"],
      [name |-> <<"b",".","p","d","f">>, content |-> "empty"]>> }

\* the rest of the state, which save_zip leaves alone
notZip == <<text, pc, min_confidence, all_matches, fields, template, file, outcome,
            raw_label, canonical, workerVars, callVars, faultVars, uiVars>>

\* save_zip(renamed_data, save_path) is called; a file may be at save_path
InitZip ==
    /\ zip_data \in ZipInputs
    /\ existing \in {None, Some("old")}
    /\ save_path_file = existing
    /\ temp_file = None
    /\ backup_file = None
    /\ zip_pc = "validate"
    /\ zip_error = None
    /\ pc = "zip"
    /\ NoRun
    /\ NoFault
    /\ text = <<>>
    /\ min_confidence = F0_6
    /\ all_matches = <<>>
    /\ fields = <<>>
    /\ template = NoTemplate
    /\ file = NoFile
    /\ outcome = NoOutcome
    /\ raw_label = <<>>
    /\ canonical = <<>>
    /\ NoWorker
    /\ NoCalls

\* lines 152-158: the data and the path are validated, before the try
ZipValidate ==
    /\ zip_pc = "validate"
    /\ \E path_ok \in BOOLEAN :
          IF validate_zip_data(zip_data) /\ path_ok
          THEN zip_pc' = "space" /\ zip_error' = zip_error
          ELSE zip_pc' = "raised" /\ zip_error' = Some("ZipValidationError")
    /\ UNCHANGED <<zip_data, existing, save_path_file, temp_file, backup_file, notZip>>

\* lines 161-176: the free space is compared with the estimated size, before the try
ZipCheckSpace ==
    /\ zip_pc = "space"
    /\ \E enough \in BOOLEAN :
          IF enough
          THEN zip_pc' = "write" /\ zip_error' = zip_error
          ELSE zip_pc' = "raised" /\ zip_error' = Some("ZipError")
    /\ UNCHANGED <<zip_data, existing, save_path_file, temp_file, backup_file, notZip>>

\* lines 184-209: the archive is written to the temporary file; entries with
\* empty content are left out, and an archive without entries is an error
ZipWrite ==
    /\ zip_pc = "write"
    /\ \E written \in {"whole", "partly", "not at all"} :
          LET files_added == Cardinality({k \in Indices(zip_data) : zip_data[k].content # "empty"})
          IN  /\ temp_file' = CASE written = "whole" -> Some("new")
                                [] written = "partly" -> Some("partial")
                                [] OTHER -> temp_file
              /\ IF written = "whole" /\ files_added # 0
                 THEN zip_pc' = "verify" /\ zip_error' = zip_error
                 ELSE zip_pc' = "finally" /\ zip_error' = Some("ZipError")
    /\ UNCHANGED <<zip_data, existing, save_path_file, backup_file, notZip>>

\* lines 211-226: the temporary file is read back and tested
ZipVerify ==
    /\ zip_pc = "verify"
    /\ \E good \in BOOLEAN :
          IF good
          THEN zip_pc' = "backup" /\ zip_error' = zip_error
          ELSE zip_pc' = "finally" /\ zip_error' = Some("ZipError")
    /\ UNCHANGED <<zip_data, existing, save_path_file, temp_file, backup_file, notZip>>

\* lines 229-235: a file at save_path is renamed to .backup
ZipBackup ==
    /\ zip_pc = "backup"
    /\ IF save_path_file = None
       THEN /\ zip_pc' = "move"
            /\ UNCHANGED <<save_path_file, backup_file, zip_error>>
       ELSE \E renamed \in BOOLEAN :
               IF renamed
               THEN /\ backup_file' = save_path_file
                    /\ save_path_file' = None
                    /\ zip_pc' = "move"
                    /\ zip_error' = zip_error
               ELSE /\ zip_pc' = "finally"
                    /\ zip_error' = Some("ZipError")
                    /\ UNCHANGED <<save_path_file, backup_file>>
    /\ UNCHANGED <<zip_data, existing, temp_file, notZip>>

\* lines 237-245: the temporary file is renamed to save_path; when that
\* fails the backup, if there is one, is renamed back, and a failure of that
\* is passed over
ZipMove ==
    /\ zip_pc = "move"
    /\ \E moved \in BOOLEAN, restored \in BOOLEAN :
          IF moved
          THEN /\ save_path_file' = temp_file
               /\ temp_file' = None
               /\ backup_file' = backup_file
               /\ zip_pc' = "cleanup"
               /\ zip_error' = zip_error
          ELSE /\ IF backup_file # None /\ restored
                  THEN save_path_file' = backup_file /\ backup_file' = None
                  ELSE UNCHANGED <<save_path_file, backup_file>>
               /\ temp_file' = temp_file
               /\ zip_pc' = "finally"
               /\ zip_error' = Some("ZipError")
    /\ UNCHANGED <<zip_data, existing, notZip>>

\* lines 248-253: the backup is deleted; a failure of that is passed over
ZipCleanup ==
    /\ zip_pc = "cleanup"
    /\ \E deleted \in BOOLEAN :
          backup_file' = IF backup_file # None /\ deleted THEN None ELSE backup_file
    /\ zip_pc' = "stat"
    /\ UNCHANGED <<zip_data, existing, save_path_file, temp_file, zip_error, notZip>>

\* lines 256-257: the size of the new file is read for the log; an OSError
\* of stat goes to the handler of line 262
ZipStat ==
    /\ zip_pc = "stat"
    /\ \E read \in BOOLEAN :
          zip_error' = IF read THEN zip_error ELSE Some("ZipError")
    /\ zip_pc' = "finally"
    /\ UNCHANGED <<zip_data, existing, save_path_file, temp_file, backup_file, notZip>>

\* lines 275-281: finally, the temporary file is deleted if it is still
\* there; a failure of that is passed over.  Then save_zip returns or raises.
ZipFinally ==
    /\ zip_pc = "finally"
    /\ \E deleted \in BOOLEAN :
          temp_file' = IF temp_file # None /\ deleted THEN None ELSE temp_file
    /\ zip_pc' = IF zip_error # None THEN "raised" ELSE "returned"
    /\ UNCHANGED <<zip_data, existing, save_path_file, backup_file, zip_error, notZip>>

NextZip ==
    \/ ZipValidate
    \/ ZipCheckSpace
    \/ ZipWrite
    \/ ZipVerify
    \/ ZipBackup
    \/ ZipMove
    \/ ZipCleanup
    \/ ZipStat
    \/ ZipFinally

SpecZip == InitZip /\ [][NextZip]_vars

----------------------------------------------------------------------------

(* The claims                                                              *)


\* the stripped line a candidate was found on, and the base confidence of its pattern
LineOf(txt, m) == Strip(Split(txt, "\n")[m.line_number + 1])
BaseOf(m) == compiled_patterns[CHOOSE k \in Indices(compiled_patterns) :
                                   compiled_patterns[k].name = m.pattern_used].base
\* the score of a candidate before the clamp
RawOf(txt, m) == RawConfidence(m.key, m.value, BaseOf(m), LineOf(txt, m), m.pattern_used)

\* C1: every field of the mapping extract_fields_advanced(text, min_confidence)
\* returns has confidence >= min_confidence.
C1_ThresholdRespected ==
    \A i \in Indices(fields) : FGe(fields[i].confidence, min_confidence)

\* C1 witness: a call with a positive threshold that returned a field and
\* dropped a candidate scoring below the threshold.
C1_Witness ==
    /\ pc = "extracted"
    /\ FLt(F0_0, min_confidence)
    /\ fields # <<>>
    /\ Len(AllMatches(text, F0_0)) > Len(all_matches)

\* C2: a candidate matched by the pattern formal_indonesian always has
\* confidence exactly 1.0.
C2_FormalIsCertain ==
    \A i \in Indices(all_matches) :
        all_matches[i].pattern_used = "formal_indonesian" => all_matches[i].confidence = F1_0

\* C3: for the text "dan atau dari: untuk" and min_confidence 0.6 the
\* mapping returned is empty.
C3_NoisyLineRejected ==
    (pc = "extracted" /\ text = <<"d","a","n"," ","a","t","a","u"," ","d","a","r","i",":"," ","u","n","t","u","k">> /\ min_confidence = F0_6)
        => fields = <<>>

\* a label containing one of the words penalised in _calculate_confidence
HasFillerWord(key) ==
    \/ \E word \in content_words : Contains(KeyLower(key), word)
    \/ KeyLower(key) \in common_words

\* C4: at the default threshold 0.6 no field of the returned mapping has a
\* label containing a filler/connective word.
C4_FillerLabelsExcluded ==
    min_confidence = F0_6 => \A i \in Indices(fields) : ~HasFillerWord(fields[i].key)

\* C5: no two display keys of the returned mapping have the same
\* _normalize_field_name value, and the mapping has exactly one entry for each
\* canonical key that occurs among the candidates that passed the threshold.
C5_OnePerCanonicalKey ==
    /\ \A i, j \in Indices(fields) :
          _normalize_field_name(fields[i].key) = _normalize_field_name(fields[j].key) => i = j
    /\ {_normalize_field_name(fields[i].key) : i \in Indices(fields)}
          = {_normalize_field_name(all_matches[i].key) : i \in Indices(all_matches)}

\* C5 witness: two candidates with different labels and the same canonical
\* key passed the threshold, and the mapping was returned.
C5_Witness ==
    /\ pc = "extracted"
    /\ fields # <<>>
    /\ \E i, j \in Indices(all_matches) :
          /\ all_matches[i].key # all_matches[j].key
          /\ _normalize_field_name(all_matches[i].key) = _normalize_field_name(all_matches[j].key)

NameA_NameB == <<"N","a","m","e",":"," ","A","\n","N","a","m","e",":"," ","B">>

\* C6: of the candidates with the same canonical key and the same
\* confidence as a returned field, none is on an earlier line than the
\* field; for the text "Name: A\nName: B" the single returned field has value "A".
C6_EarlierLineWinsTies ==
    /\ \A i \in Indices(fields) : \A k \in Indices(all_matches) :
          (/\ _normalize_field_name(all_matches[k].key) = _normalize_field_name(fields[i].key)
           /\ all_matches[k].confidence = fields[i].confidence)
              => fields[i].line_number <= all_matches[k].line_number
    /\ (pc = "extracted" /\ text = NameA_NameB /\ FLe(min_confidence, F0_6))
          => (Len(fields) = 1 /\ fields[1].value = <<"A">>)

\* C6 witness: the text "Name: A\nName: B" was extracted, the field has value
\* "A", and a candidate of the later line has the same canonical key and the
\* same confidence.
C6_Witness ==
    /\ pc = "extracted"
    /\ text = NameA_NameB
    /\ Len(fields) = 1
    /\ fields[1].value = <<"A">>
    /\ \E k \in Indices(all_matches) :
          /\ all_matches[k].line_number > fields[1].line_number
          /\ all_matches[k].confidence = fields[1].confidence
          /\ _normalize_field_name(all_matches[k].key) = _normalize_field_name(fields[1].key)

\* C7: the confidence of every candidate scored by _calculate_confidence and
\* of every returned field lies in [0, 1].
C7_ConfidenceInUnitInterval ==
    /\ \A i \in Indices(all_matches) :
          FLe(F0_0, all_matches[i].confidence) /\ FLe(all_matches[i].confidence, F1_0)
    /\ \A i \in Indices(fields) :
          FLe(F0_0, fields[i].confidence) /\ FLe(fields[i].confidence, F1_0)

\* C7 witness: a returned field whose bonuses add up to more than 1.0 before
\* the clamp.
C7_Witness ==
    /\ pc = "extracted"
    /\ \E i \in Indices(fields) :
          /\ FLt(F1_0, RawOf(text, fields[i]))
          /\ fields[i].confidence = F1_0

\* C8: _normalize_field_name(_normalize_field_name(s)) = _normalize_field_name(s)
\* for every label s.
C8_NormalizeIdempotent ==
    Len(canonical) = 2 => canonical[2] = canonical[1]

\* the rules process_single_pdf reported as not found
RulesNotFound ==
    IF outcome.error = None THEN {}
    ELSE {outcome.error[1].missing[i].rule :
             i \in {j \in Indices(outcome.error[1].missing) : outcome.error[1].missing[j].why = ""}}

\* C9: a rule that differs from an extracted display key only in letter case
\* selects that field: it is not reported as a missing field.
C9_RulesMatchIgnoringCase ==
    (pc = "processed" /\ file.valid)
        => \A r \in Indices(template.aturan) :
              (\E i \in Indices(fields) : StrLower(fields[i].key) = StrLower(template.aturan[r]))
                  => template.aturan[r] \notin RulesNotFound

\* the cleaned values of the template's rules, in rule order
CleanValues ==
    [r \in Indices(template.aturan) |->
        validate_filename_component(FieldValue(DetectedFields(fields), template.aturan[r]))]

\* C10: a file name returned by process_single_pdf is the cleaned values of
\* the rules, in rule order, joined by the template's separator 'pemisah' and
\* followed by '.pdf', the format the UI displays for the template.
C10_NameUsesTemplateSeparator ==
    (pc = "processed" /\ outcome.new_name # None)
        => outcome.new_name[1] = format_str(template.pemisah, CleanValues)

\* the rules of the template that are absent from the extracted mapping, or
\* whose value is empty after validate_filename_component
RulesUnusable ==
    {r \in Indices(template.aturan) :
        \/ ~HasField(DetectedFields(fields), template.aturan[r])
        \/ validate_filename_component(FieldValue(DetectedFields(fields), template.aturan[r])) = <<>>}

\* the rules the error of process_single_pdf names, whatever the reason
RulesNamed ==
    IF outcome.error = None THEN {}
    ELSE {outcome.error[1].missing[i].rule : i \in Indices(outcome.error[1].missing)}

\* C11: if a rule of the template is absent from the extracted mapping, or its
\* cleaned value is empty, process_single_pdf returns no file name and no
\* content but an error; when extract_pdf_fields returned a mapping the error
\* names exactly those rules. No name is built from only some of the rules.
C11_NoPartialNames ==
    (pc = "processed" /\ RulesUnusable # {})
        => /\ outcome.new_name = None
           /\ outcome.content = None
           /\ outcome.error # None
           /\ (file.valid /\ fields # <<>>)
                 => RulesNamed = {template.aturan[r] : r \in RulesUnusable}

\* C11 witness: a readable file of which one rule of the template is filled
\* and another is not, and process_single_pdf returned no name.
C11_Witness ==
    /\ pc = "processed"
    /\ file = [valid |-> TRUE, content |-> "bytes"]
    /\ RulesUnusable # {}
    /\ RulesUnusable # Indices(template.aturan)
    /\ outcome.new_name = None

\* the reason for which the k-th document of the batch fails: the error of
\* process_single_pdf, or the message of the handler of line 88
ReasonOf(k) ==
    LET doc == uploaded_files[k]
        got == process_single_pdf(doc.file, template, PdfText(doc.text),
                                  extract_fields_advanced(PdfText(doc.text), F0_6))
    IN  IF doc.raises \/ got.error = None THEN [msg |-> <<"Error tak terduga">>, missing |-> <<>>]
        ELSE got.error[1]

\* the reason a file_processed signal carries
ReasonReported(k) ==
    IF uploaded_files[k].raises THEN [msg |-> file_processed[k].message, missing |-> <<>>]
    ELSE file_processed[k].message

\* C12: in BulkProcessWorker.run a document that fails does not stop the
\* batch: the loop counts every file it goes through once (success_count +
\* error_count) and reports it once, in order, every failure with the reason
\* of its own document; run returns before the last file only after stop()
\* (or for a template validate_template_structure rejects), so that after the
\* loop success_count + error_count is the number of files.
C12_FailuresDoNotStopTheBatch ==
    pc \in {"loop", "returned"} =>
        /\ success_count + error_count = file_index
        /\ Len(file_processed) = file_index
        /\ file_index <= Len(uploaded_files)
        /\ \A k \in Indices(file_processed) :
              /\ file_processed[k].file = k
              /\ ~file_processed[k].success =>
                    /\ file_processed[k].message # <<>>
                    /\ ReasonReported(k) = ReasonOf(k)
        /\ (pc = "returned" /\ file_index < Len(uploaded_files))
              => (~is_running \/ ~validate_template_structure(template).is_valid)
        /\ (pc = "returned" /\ is_running /\ validate_template_structure(template).is_valid)
              => success_count + error_count = Len(uploaded_files)

\* C12 witness: a batch that was not stopped, whose first document failed and
\* whose second document was renamed, after the loop.
C12_Witness ==
    /\ pc = "returned"
    /\ is_running
    /\ Len(uploaded_files) = 2
    /\ Len(file_processed) = 2
    /\ ~file_processed[1].success
    /\ file_processed[2].success
    /\ success_count + error_count = 2

NamaBudi_AlamatJakarta == <<"N","a","m","a",":"," ","B","u","d","i","\n","A","l","a","m","a","t",":"," ","J","a","k","a","r","t","a">>

\* C13: for the text "Nama: Budi\nAlamat: Jakarta" and threshold 0.5 the
\* mapping returned has exactly the display keys "Nama" and "Alamat", with the
\* values "Budi" and "Jakarta", each with confidence at least 0.95.
C13_TwoFieldExample ==
    (pc = "extracted" /\ text = NamaBudi_AlamatJakarta /\ min_confidence = F0_50)
        => /\ Len(fields) = 2
           /\ {<<fields[i].key, fields[i].value>> : i \in Indices(fields)}
                 = {<<<<"N","a","m","a">>, <<"B","u","d","i">>>>,
                    <<<<"A","l","a","m","a","t">>, <<"J","a","k","a","r","t","a">>>>}
           /\ \A i \in Indices(fields) : FGe(fields[i].confidence, F0_95)

\* C13 witness: that text was extracted at threshold 0.5 and two fields came back.
C13_Witness ==
    /\ pc = "extracted"
    /\ text = NamaBudi_AlamatJakarta
    /\ min_confidence = F0_50
    /\ Len(fields) = 2

C20_ExtractionIsReentrant ==
    /\ \A i \in Indices(history) :
          history[i].result = extract_fields_advanced(history[i].text, history[i].min_confidence)
    /\ \A k \in Indices(instances) : instances[k].compiled_patterns = compiled_patterns

\* C20 witness: one thread's call has returned fields while the call of the
\* other thread, on another text, is in the middle of its scan with
\* candidates of its own.
C20_Witness ==
    /\ Len(history) = 1
    /\ history[1].result # <<>>
    /\ \E th \in Threads :
          /\ th # history[1].thread
          /\ threads[th].pc = "scan"
          /\ threads[th].text # history[1].text
          /\ threads[th].all_matches # <<>>
          /\ threads[th].line_num < Len(threads[th].lines)

\* a key or value as extract_fields_advanced bounds it
KeyInBounds(key) == key = Strip(key) /\ Len(key) >= 2 /\ Len(key) <= 40
ValueInBounds(value) == value = Strip(value) /\ Len(value) >= 1 /\ Len(value) <= 100

\* C15: every candidate that was scored and every field returned has a
\* trimmed key of 2 to 40 characters and a trimmed value of 1 to 100
\* characters.
C15_LengthBounds ==
    /\ \A i \in Indices(all_matches) :
          KeyInBounds(all_matches[i].key) /\ ValueInBounds(all_matches[i].value)
    /\ \A i \in Indices(fields) :
          KeyInBounds(fields[i].key) /\ ValueInBounds(fields[i].value)

\* C15 witness: at threshold 0.0 a pattern matched the one line of the text
\* with a key that is a single character once trimmed, and no candidate was
\* kept for it.
C15_Witness ==
    /\ pc = "extracted"
    /\ min_confidence = F0_0
    /\ all_matches = <<>>
    /\ Len(Split(text, "\n")) = 1
    /\ \E k \in Indices(compiled_patterns) :
          LET matches == FindAll(compiled_patterns[k].re, Strip(text))
          IN  \E m \in Indices(matches) : Len(Strip(matches[m][1])) < 2

\* C16: for a text that is empty or only whitespace extract_fields_advanced
\* returns the empty mapping (the call returns; nothing is raised).
C16_BlankTextGivesEmptyMapping ==
    (pc = "extracted" /\ (text = <<>> \/ Strip(text) = <<>>))
        => fields = <<>> /\ all_matches = <<>>

\* C16 witness: the call returned for a text of whitespace characters, with
\* an empty mapping.
C16_Witness ==
    /\ pc = "extracted"
    /\ text # <<>>
    /\ Strip(text) = <<>>
    /\ fields = <<>>

\* the characters < > : " / \ | ? * and the control characters
UnsafeChars == {"<", ">", ":", "\"", "/", "\\", "|", "?", "*"} \cup ControlCh

HasUnsafeChar(s) == \E k \in Indices(s) : s[k] \in UnsafeChars

\* C17: a file name returned by process_single_pdf contains none of the
\* characters < > : " / \ | ? * and no control character, whatever the
\* extracted values and the separator of the template contain.
C17_NameHasNoUnsafeChar ==
    (pc = "processed" /\ outcome.new_name # None) => ~HasUnsafeChar(outcome.new_name[1])

\* C17 witness: a name was returned for a template of which an extracted
\* value, or the separator between two values, holds an unsafe character.
C17_Witness ==
    /\ pc = "processed"
    /\ outcome.new_name # None
    /\ \/ \E r \in Indices(template.aturan) :
             HasUnsafeChar(FieldValue(DetectedFields(fields), template.aturan[r]))
       \/ Len(template.aturan) = 2 /\ HasUnsafeChar(template.pemisah)

\* the cleaned values of the rules joined by the cleaned separator, when
\* extract_pdf_fields returned a mapping that fills every rule
JoinedValues == Join(CleanValues, CleanSeparator(template.pemisah))

EveryRuleFilled ==
    /\ file.valid
    /\ fields # <<>>
    /\ validate_template_rules(template.aturan).is_valid
    /\ RulesUnusable = {}

\* C18: a file name returned by process_single_pdf is at most 200 characters
\* long before its '.pdf' extension; when the joined values are longer than
\* 200 characters the call returns an error, no file name and no content.
C18_JoinedNameAtMost200 ==
    pc = "processed" =>
        /\ outcome.new_name # None =>
              /\ Len(outcome.new_name[1]) <= 200 + 4
              /\ Slice(outcome.new_name[1], Len(outcome.new_name[1]) - 3, Len(outcome.new_name[1]))
                    = <<".", "p", "d", "f">>
        /\ (EveryRuleFilled /\ Len(JoinedValues) > 200)
              => /\ outcome.new_name = None
                 /\ outcome.content = None
                 /\ outcome.error # None

\* C18 witness: a readable file whose two values of 100 characters each, with
\* the separator, come to more than 200 characters, and the call returned an error.
C18_Witness ==
    /\ pc = "processed"
    /\ file = [valid |-> TRUE, content |-> "bytes"]
    /\ EveryRuleFilled
    /\ Len(JoinedValues) > 200
    /\ outcome.new_name = None
    /\ outcome.error # None

\* the texts of the pages for which line 507 finds nothing to read
EmptyTexts == {PdfText(t) : t \in {u \in Texts : Strip(PdfText(u)) = <<>>}}

\* the document has text and no field of it reached the threshold
NoFieldReachedThreshold ==
    /\ pc = "processed"
    /\ file.valid
    /\ validate_template_rules(template.aturan).is_valid
    /\ Strip(PdfText(text)) # <<>>
    /\ DetectedFields(fields) = <<>>

\* C19: when a document has text and no field reaches the threshold,
\* extract_pdf_fields raises an error whose message, which the caller returns,
\* differs from the one raised for every document whose text is empty, and the
\* two outcomes differ as a whole; a document with empty text does get the
\* message of the unreadable text.
C19_NoFieldIsNotEmptyText ==
    /\ NoFieldReachedThreshold =>
          /\ outcome.error # None
          /\ \A b \in EmptyTexts :
                LET empty == extract_pdf_fields(file, b, extract_fields_advanced(b, F0_6))
                IN  /\ empty.raised
                    /\ empty.msg # outcome.error[1].msg
                    /\ empty # extract_pdf_fields(file, PdfText(text), fields)
    /\ (pc = "processed" /\ file.valid /\ validate_template_rules(template.aturan).is_valid
            /\ Strip(PdfText(text)) = <<>>)
          => /\ outcome.error # None
             /\ outcome.error[1].msg
                   = <<"Error membaca PDF", "Tidak ada teks yang dapat dibaca dari PDF">>

\* C19 witness: a readable document with text in which no field was found, whose
\* processing reported the error of the extraction and not the one of the reading.
C19_Witness ==
    /\ NoFieldReachedThreshold
    /\ EmptyTexts # {}
    /\ outcome.error # None
    /\ outcome.error[1].msg[1] = "Error saat ekstraksi field dari"

\* the call of extract_fields_advanced has returned: fields is its mapping
\* and all_matches the candidates that passed the threshold
Extracted == pc \in {"extracted", "processed"}

\* the candidates c and the returned field f are of the same group
SameGroup(c, f) == GroupingKey(c) = GroupingKey(f)

\* C21: every field returned by extract_fields_advanced has the highest
\* confidence of the candidates of its canonical key that passed the
\* threshold, whatever lines they are on.
C21_WinnerHasMaxConfidence ==
    Extracted =>
        \A i \in Indices(fields), j \in Indices(all_matches) :
            SameGroup(all_matches[j], fields[i])
                => FLe(all_matches[j].confidence, fields[i].confidence)

\* C21 witness: a returned field that comes from a later line than a candidate
\* of its group whose confidence is lower.
C21_Witness ==
    /\ Extracted
    /\ \E i \in Indices(fields), j \in Indices(all_matches) :
          /\ SameGroup(all_matches[j], fields[i])
          /\ all_matches[j].line_number < fields[i].line_number
          /\ FLt(all_matches[j].confidence, fields[i].confidence)

\* the string that reaches the abbreviation-expansion step, line 304-309
BeforeAbbreviations(field_name) == RemoveNoise(Strip(StrLower(field_name)))

\* normalized is one of the abbreviations of the table
IsAbbreviation(normalized) ==
    \E k \in Indices(standardizations) : standardizations[k][1] = normalized

\* C22: the abbreviation-expansion step changes the normalised string only
\* when the whole string is a known abbreviation; a string that contains or
\* ends with an abbreviation leaves the step as it entered it.
C22_AbbreviationWholeStringOnly ==
    pc = "normalized" =>
        (Standardize(BeforeAbbreviations(raw_label), 1) # BeforeAbbreviations(raw_label)
            => IsAbbreviation(BeforeAbbreviations(raw_label)))

\* the candidate c comes from the application that raises
FromFailing(c) ==
    /\ c.pattern_used = compiled_patterns[failing[1].pattern].name
    /\ c.line_number = failing[1].line_number

\* the candidates of a scan of text in which nothing raises
Unfailing == AllMatches(text, min_confidence)

\* C23: when applying one pattern to one line raises, extract_fields_advanced
\* returns: the pattern and line that failed give no candidate, the candidates
\* of all other patterns and lines are those of a scan without failure, and
\* the mapping returned is resolved from them.
C23_PatternFailureIsAbsorbed ==
    (failing # None /\ pc # "init") =>
        /\ ~scan_raised
        /\ pc = "extracted"
        /\ \A i \in Indices(all_matches) : ~FromFailing(all_matches[i])
        /\ all_matches = SelectIdx(Unfailing,
                                   {i \in Indices(Unfailing) : ~FromFailing(Unfailing[i])}, 1)
        /\ fields = _deduplicate_fields(all_matches)

\* C23 witness: the application that raised would have given a candidate, and
\* the call returned fields found by the other applications.
C23_Witness ==
    /\ failing # None
    /\ pc = "extracted"
    /\ \E i \in Indices(Unfailing) : FromFailing(Unfailing[i])
    /\ fields # <<>>

\* C24: a run of BulkProcessWorker that has ended has emitted exactly one
\* signal, finished or error, also when the user stopped it; once the window
\* has handled what was emitted, the run button is enabled and the stop
\* button disabled.
C24_RunEndsWithOneSignal ==
    pc = "returned" =>
        /\ Len(signals) = 1
        /\ signals[1].signal \in {"finished", "error"}
        /\ handled = Len(signals) => (process_run_btn /\ ~process_stop_btn)

\* the names under which the successes were reported, in the order of the files
ReportedNames ==
    LET ok == SelectIdx(file_processed,
                        {k \in Indices(file_processed) : file_processed[k].success}, 1)
    IN  [k \in Indices(ok) |-> ok[k].message]

\* C25: in BulkProcessWorker.run renamed_data holds one entry for each
\* document counted in success_count, under pairwise distinct names, and the
\* entries are the names reported for the successes: none was overwritten.
C25_NoRenamedDocumentLost ==
    /\ Len(renamed_data) = success_count
    /\ \A i, j \in Indices(renamed_data) : renamed_data[i] = renamed_data[j] => i = j
    /\ renamed_data = ReportedNames

\* C25 witness: two documents of the batch were given the same name by
\* process_single_pdf, and the second is stored with the suffix _1.
C25_Witness ==
    /\ success_count >= 2
    /\ \E i, j \in Indices(renamed_data) :
          /\ i < j
          /\ renamed_data[j] = SuffixedName(renamed_data[i], 1, <<>>)

\* C26: every file name that process_single_pdf returns with a success is
\* accepted by the file-name checks of validate_zip_data.
C26_NamesAcceptedByZip ==
    (pc = "processed" /\ outcome.new_name # None) => FileNameAccepted(outcome.new_name[1])

\* C27: at most one OptimizedRegexExtractor is constructed through
\* get_regex_extractor, and every call that has returned ran on that same
\* instance, also when the first calls of two threads overlap.
C27_OneExtractorInstance ==
    /\ Len(instances) <= 1
    /\ \A i, j \in Indices(history) : history[i].self = history[j].self

\* the tuple (new_name, content, None) of a success
SuccessShape(ret) ==
    /\ ret.new_name # None
    /\ Len(ret.new_name[1]) > 4
    /\ Slice(ret.new_name[1], Len(ret.new_name[1]) - 3, Len(ret.new_name[1])) = <<".", "p", "d", "f">>
    /\ ret.content = Some("bytes")
    /\ ret.error = None

\* the tuple (None, None, message) of a failure
FailureShape(ret) ==
    /\ ret.new_name = None
    /\ ret.content = None
    /\ ret.error # None
    /\ ret.error[1].msg # <<>>

\* C28: what process_single_pdf returns is either a name ending in '.pdf'
\* with non-empty content and no error, or no name, no content and a
\* non-empty message; never a name with an error or a name without content.
C28_ReturnHasOneOfTwoShapes ==
    pc = "processed" =>
        /\ SuccessShape(outcome) \/ FailureShape(outcome)
        /\ ~(SuccessShape(outcome) /\ FailureShape(outcome))

\* C28 witness: the name was built from the fields of the document, the file
\* read back empty, and the call returned the failure of the empty file.
C28_Witness ==
    /\ pc = "processed"
    /\ EveryRuleFilled
    /\ file.content = "empty"
    /\ outcome.error # None
    /\ outcome.error[1].msg = <<"File PDF kosong">>

\* the entries of a mapping
Entries(mapping) == {mapping[k] : k \in Indices(mapping)}

\* C29: of two calls of extract_fields_advanced on the same text, the one
\* with the higher threshold returns exactly the entries of the other whose
\* confidence reaches that threshold: no key is added, no value changes.
C29_HigherThresholdOnlyFilters ==
    \A i, j \in Indices(history) :
        (history[i].text = history[j].text
            /\ FLe(history[i].min_confidence, history[j].min_confidence))
        => Entries(history[j].result)
              = {f \in Entries(history[i].result) : FGe(f.confidence, history[j].min_confidence)}

\* C29 witness: the second call, at a higher threshold, returned some of the
\* entries of the first call and not all of them.
C29_Witness ==
    /\ Len(history) = 2
    /\ history[1].min_confidence # history[2].min_confidence
    /\ history[2].result # <<>>
    /\ Entries(history[2].result) # Entries(history[1].result)

\* C30: when save_zip has raised, a file that was at save_path before the
\* call is at save_path with the content it had; and when save_zip has
\* returned or raised, no .tmp file is left.
C30_TargetReplacedAtomically ==
    /\ (zip_pc = "raised" /\ existing # None) => save_path_file = existing
    /\ zip_pc \in {"raised", "returned"} => temp_file = None
====
